---- MODULE Spec2Model ----
(***************************************************************************)
(* Model of flashcards-tui: the statistics engine, the study-session state *)
(* machine, the statistics-file persistence and the application loop.      *)
(*                                                                         *)
(* Python values are modelled as follows.                                  *)
(*   str (question, card key) : sequence of one-character strings          *)
(*   dict                     : sequence of [k, v] entries in insertion    *)
(*                              order, keys pairwise different             *)
(*   dataclass                : record with the dataclass's field names    *)
(*   None                     : the record None                            *)
(*   a call                   : [exc |-> "none", value |-> v] on return,   *)
(*                              [exc |-> "<ExceptionName>"] on raise       *)
(***************************************************************************)
EXTENDS Integers, Sequences, FiniteSets, TLC

VARIABLES
    call,               \* the pure-function call under examination
    ret,                \* what that call returned
    stats_file,         \* content of the statistics file on disk
    flashcard_set,      \* main.py: the loaded FlashcardSet
    app_state,          \* main.py: AppState.flashcard_sets
    current_set_stats,  \* main.py: statistics of the current set
    session,            \* run_study_session: the StudySession
    current_stats,      \* run_study_session: running statistics
    cards_studied,      \* run_study_session: cards_studied
    response,           \* run_study_session: the last response read
    console,            \* what the console has been asked to show
    choice,             \* main.py: the last menu token read
    selection_state,    \* main.py: run_set_selection_menu's app_state
    pc                  \* where the process is waiting

vars == <<call, ret, stats_file, flashcard_set, app_state, current_set_stats,
          session, current_stats, cards_studied, response, console, choice,
          selection_state, pc>>

appVars == <<stats_file, flashcard_set, app_state, current_set_stats,
             session, current_stats, cards_studied, response, console,
             choice, selection_state, pc>>

(***************************************************************************)
(* Bounds of the model                                                     *)
(***************************************************************************)
MaxCount == 2
MaxEntries == 2

(***************************************************************************)
(* Python built-ins                                                        *)
(***************************************************************************)
None == [none |-> TRUE]

Min(a, b) == IF a < b THEN a ELSE b

BoolToInt(b) == IF b THEN 1 ELSE 0

\* s[:n]
Prefix(s, n) == SubSeq(s, 1, Min(Len(s), n))

EmptyDict == <<>>

DictKeys(d) == {d[i].k : i \in 1..Len(d)}

DictHas(d, key) == key \in DictKeys(d)

DictIndex(d, key) == CHOOSE i \in 1..Len(d) : d[i].k = key

\* d[key]
DictAt(d, key) == d[DictIndex(d, key)].v

\* d.get(key, default)
DictGet(d, key, default) == IF DictHas(d, key) THEN DictAt(d, key) ELSE default

\* d[key] = value : replaces in place, or appends a new last entry
DictSet(d, key, value) ==
    IF DictHas(d, key)
    THEN [d EXCEPT ![DictIndex(d, key)] = [k |-> key, v |-> value]]
    ELSE Append(d, [k |-> key, v |-> value])

\* a Python dict never holds a key twice
IsDict(d) == \A i, j \in 1..Len(d) : d[i].k = d[j].k => i = j

(***************************************************************************)
(* Data types (src/src/core/types.py)                                      *)
(***************************************************************************)
FlashCard(q, a) == [question |-> q, answer |-> a, code_example |-> None]

CardStats(c, t) == [correct |-> c, total |-> t]

FlashcardSetStats(ca, ta, cs) ==
    [correct_answers |-> ca, total_attempts |-> ta, card_stats |-> cs]

EmptyCardStats == CardStats(0, 0)

EmptySetStats == FlashcardSetStats(0, 0, EmptyDict)

(***************************************************************************)
(* The cards of the model.  Two questions are longer than the key and      *)
(* differ only after it; one is shorter than the key.                      *)
(***************************************************************************)
KeyLen == 50

LongQuestion(last) == [i \in 1..KeyLen |-> "a"] \o <<last>>

Card1 == FlashCard(LongQuestion("x"), "A1")
Card2 == FlashCard(LongQuestion("y"), "A2")
Card3 == FlashCard(<<"b">>, "A3")

Cards == {Card1, Card2, Card3}

(***************************************************************************)
(* Statistics engine (src/flashcard_statistics.py)                         *)
(***************************************************************************)
update_card_stats_wrong(card_stats, is_correct) ==
    CardStats(card_stats.correct + 1, card_stats.total + 1)

\* a tally that records one correct answer at most
update_card_stats_once(card_stats, is_correct) ==
    CardStats(IF is_correct THEN 1 ELSE card_stats.correct,
              card_stats.total + 1)

update_card_stats(card_stats, is_correct) ==
    CardStats(card_stats.correct + BoolToInt(is_correct),
              card_stats.total + 1)

\* a key that is the whole question
CardKey_whole_question(card) == card.question

CardKey(card) == Prefix(card.question, KeyLen)

update_set_stats_wrong(set_stats, card, is_correct) ==
    LET card_key == CardKey(card)
        new_card_stats == update_card_stats(EmptyCardStats, is_correct)
        new_card_stats_dict ==
            DictSet(set_stats.card_stats, card_key, new_card_stats)
    IN  FlashcardSetStats(
            set_stats.correct_answers + BoolToInt(is_correct),
            set_stats.total_attempts + 1,
            new_card_stats_dict)

update_set_stats(set_stats, card, is_correct) ==
    LET card_key == CardKey(card)
        current_card_stats ==
            DictGet(set_stats.card_stats, card_key, EmptyCardStats)
        new_card_stats == update_card_stats(current_card_stats, is_correct)
        new_card_stats_dict ==
            DictSet(set_stats.card_stats, card_key, new_card_stats)
    IN  FlashcardSetStats(
            set_stats.correct_answers + BoolToInt(is_correct),
            set_stats.total_attempts + 1,
            new_card_stats_dict)

(***************************************************************************)
(* Input domains of the pure functions                                     *)
(***************************************************************************)
Counts == 0..MaxCount

CardKeys == {CardKey(c) : c \in Cards}

CardStatsValues == {CardStats(c, t) : c \in Counts, t \in Counts}

CardStatsEntries == {[k |-> key, v |-> s] : key \in CardKeys,
                                             s \in CardStatsValues}

SeqsUpTo(S, n) == UNION {[1..m -> S] : m \in 0..n}

CardStatsDicts == {d \in SeqsUpTo(CardStatsEntries, MaxEntries) : IsDict(d)}

SetStatsValues ==
    {FlashcardSetStats(ca, ta, cs) :
        ca \in Counts, ta \in Counts, cs \in CardStatsDicts}

(***************************************************************************)
(* The application is idle while a pure function is examined.              *)
(***************************************************************************)
NoCall == [fn |-> "none", done |-> FALSE]

NoRet == [exc |-> "pending"]

Return(v) == [exc |-> "none", value |-> v]

Raise(e) == [exc |-> e]

AppIdleButFile ==
    /\ flashcard_set = [cards |-> <<>>, name |-> "python"]
    /\ app_state = EmptyDict
    /\ current_set_stats = EmptySetStats
    /\ session = [cards |-> <<>>, current_index |-> 0, correct_count |-> 0,
                  randomized |-> FALSE]
    /\ current_stats = EmptySetStats
    /\ cards_studied = 0
    /\ response = "none"
    /\ console = [summary |-> None, warned |-> FALSE]
    /\ choice = "none"
    /\ selection_state = None
    /\ pc = "idle"

AppIdle ==
    /\ stats_file = [t |-> "missing"]
    /\ AppIdleButFile

(***************************************************************************)
(* Specification of the statistics engine: the arguments are drawn from    *)
(* the input domains, one step applies the function.                       *)
(***************************************************************************)
StatsCalls ==
    {[fn |-> "update_card_stats", done |-> FALSE,
      card_stats |-> s, is_correct |-> b] :
        s \in CardStatsValues, b \in BOOLEAN}
    \cup
    {[fn |-> "update_set_stats", done |-> FALSE,
      set_stats |-> s, card |-> c, is_correct |-> b] :
        s \in SetStatsValues, c \in Cards, b \in BOOLEAN}

InitStats ==
    /\ call \in StatsCalls
    /\ ret = NoRet
    /\ AppIdle

CallUpdateCardStats ==
    /\ call.fn = "update_card_stats"
    /\ ~call.done
    /\ ret' = Return(update_card_stats(call.card_stats, call.is_correct))
    /\ call' = [call EXCEPT !.done = TRUE]
    /\ UNCHANGED appVars

CallUpdateSetStats ==
    /\ call.fn = "update_set_stats"
    /\ ~call.done
    /\ ret' = Return(update_set_stats(call.set_stats, call.card,
                                      call.is_correct))
    /\ call' = [call EXCEPT !.done = TRUE]
    /\ UNCHANGED appVars

NextStats == CallUpdateCardStats \/ CallUpdateSetStats

SpecStats == InitStats /\ [][NextStats]_vars

\* C2: update_set_stats adds one attempt to the set, one correct answer iff
\* is_correct, and replaces exactly the entry of the card's key by the old
\* entry (or an empty CardStats) with one more attempt; every other key keeps
\* its entry and no key is added or removed.
UpdateSetStatsContract ==
    (call.fn = "update_set_stats" /\ call.done) =>
        LET old == call.set_stats
            new == ret.value
            key == CardKey(call.card)
            inc == IF call.is_correct THEN 1 ELSE 0
            before == IF DictHas(old.card_stats, key)
                      THEN DictAt(old.card_stats, key)
                      ELSE [correct |-> 0, total |-> 0]
        IN  /\ ret.exc = "none"
            /\ new.total_attempts = old.total_attempts + 1
            /\ new.correct_answers = old.correct_answers + inc
            /\ IsDict(new.card_stats)
            /\ DictKeys(new.card_stats) = DictKeys(old.card_stats) \cup {key}
            /\ DictAt(new.card_stats, key).total = before.total + 1
            /\ DictAt(new.card_stats, key).correct = before.correct + inc
            /\ \A k \in DictKeys(old.card_stats) \ {key} :
                   DictAt(new.card_stats, k) = DictAt(old.card_stats, k)

\* Witness of C2: the function has updated an entry that already had attempts
\* while another key was present.
UpdateSetStatsWitness ==
    /\ call.fn = "update_set_stats"
    /\ call.done
    /\ DictHas(call.set_stats.card_stats, CardKey(call.card))
    /\ DictAt(call.set_stats.card_stats, CardKey(call.card)).total > 0
    /\ Len(call.set_stats.card_stats) = 2
    /\ DictAt(ret.value.card_stats, CardKey(call.card)).total > 1

\* C3: update_card_stats(s, b) has total = s.total + 1 and
\* correct = s.correct + (1 if b else 0).
UpdateCardStatsContract ==
    (call.fn = "update_card_stats" /\ call.done) =>
        /\ ret.exc = "none"
        /\ ret.value.total = call.card_stats.total + 1
        /\ ret.value.correct =
               call.card_stats.correct + (IF call.is_correct THEN 1 ELSE 0)

\* Witness of C3: an incorrect answer was applied to a card with attempts.
UpdateCardStatsWitness ==
    /\ call.fn = "update_card_stats"
    /\ call.done
    /\ ~call.is_correct
    /\ call.card_stats.total > 0
    /\ ret.value.total = call.card_stats.total + 1

(***************************************************************************)
(* StudySession (src/src/core/types.py) and advance_session                *)
(* (src/src/core/session.py)                                               *)
(***************************************************************************)
MaxCards == 3
MaxIndex == 4

\* l[i] with Python's zero-based and negative indices
ListAt(l, i) ==
    IF i >= 0 /\ i < Len(l) THEN Return(l[i + 1])
    ELSE IF i < 0 /\ -i <= Len(l) THEN Return(l[Len(l) + i + 1])
    ELSE Raise("IndexError")

StudySession(cards, current_index, correct_count, randomized) ==
    [cards |-> cards, current_index |-> current_index,
     correct_count |-> correct_count, randomized |-> randomized]

is_complete_wrong(s) == s.current_index > Len(s.cards)

is_complete(s) == s.current_index >= Len(s.cards)

current_card(s) ==
    IF is_complete(s) THEN Return(None) ELSE ListAt(s.cards, s.current_index)

progress(s) == <<s.current_index + 1, Len(s.cards)>>

\* an advance that passes over the next card
advance_session_passing(s, is_correct) ==
    StudySession(s.cards, s.current_index + 2,
                 s.correct_count + BoolToInt(is_correct), s.randomized)

advance_session_wrong(s, is_correct) ==
    StudySession(s.cards, s.current_index + 1, s.correct_count + 1,
                 s.randomized)

advance_session(s, is_correct) ==
    StudySession(s.cards, s.current_index + 1,
                 s.correct_count + BoolToInt(is_correct), s.randomized)

CardLists == SeqsUpTo(Cards, MaxCards)

SessionValues ==
    {StudySession(l, i, c, r) :
        l \in CardLists, i \in 0..MaxIndex, c \in Counts, r \in BOOLEAN}

SessionCalls ==
    {[fn |-> "advance_session", done |-> FALSE,
      session |-> s, is_correct |-> b] :
        s \in SessionValues, b \in BOOLEAN}
    \cup
    {[fn |-> "properties", done |-> FALSE, session |-> s] :
        s \in SessionValues}

InitSession ==
    /\ call \in SessionCalls
    /\ ret = NoRet
    /\ AppIdle

CallAdvanceSession ==
    /\ call.fn = "advance_session"
    /\ ~call.done
    /\ ret' = Return(advance_session(call.session, call.is_correct))
    /\ call' = [call EXCEPT !.done = TRUE]
    /\ UNCHANGED appVars

\* reads the three properties of a StudySession
CallSessionProperties ==
    /\ call.fn = "properties"
    /\ ~call.done
    /\ ret' = [exc |-> current_card(call.session).exc,
               is_complete |-> is_complete(call.session),
               current_card |-> current_card(call.session),
               progress |-> progress(call.session)]
    /\ call' = [call EXCEPT !.done = TRUE]
    /\ UNCHANGED appVars

NextSession == CallAdvanceSession \/ CallSessionProperties

SpecSession == InitSession /\ [][NextSession]_vars

\* C4: advance_session(session, True) adds 1 to current_index and to
\* correct_count, advance_session(session, False) adds 1 to current_index
\* only; the cards and the randomized flag are carried over and the session
\* passed in is the same after the call as before it.
AdvanceSessionContract ==
    [][(call.fn = "advance_session" /\ call'.done) =>
          /\ ret'.exc = "none"
          /\ ret'.value.current_index = call.session.current_index + 1
          /\ ret'.value.correct_count =
                 call.session.correct_count
                     + (IF call.is_correct THEN 1 ELSE 0)
          /\ ret'.value.cards = call.session.cards
          /\ ret'.value.randomized = call.session.randomized
          /\ call'.session = call.session
          /\ call'.is_correct = call.is_correct]_vars

\* Witness of C4: an incorrect answer advanced a session that already had
\* correct answers.
AdvanceSessionWitness ==
    /\ call.fn = "advance_session"
    /\ call.done
    /\ ~call.is_correct
    /\ call.session.correct_count > 0
    /\ ret.value.current_index = call.session.current_index + 1

\* C5: is_complete is true exactly when current_index >= len(cards); when it
\* is true current_card is None, also for an index beyond the list, and when
\* it is false current_card is cards[current_index].
SessionPropertiesContract ==
    (call.fn = "properties" /\ call.done) =>
        LET s == call.session
        IN  /\ ret.is_complete <=> (s.current_index >= Len(s.cards))
            /\ ret.current_card.exc = "none"
            /\ ret.is_complete => ret.current_card.value = None
            /\ ~ret.is_complete =>
                   ret.current_card.value = s.cards[s.current_index + 1]

\* Witness of C5: the properties of a session whose index is beyond the end
\* of a non-empty list were read.
SessionPropertiesWitness ==
    /\ call.fn = "properties"
    /\ call.done
    /\ Len(call.session.cards) > 0
    /\ call.session.current_index > Len(call.session.cards)
    /\ ret.is_complete

(***************************************************************************)
(* The statistics file (src/src/io/operations.py).                         *)
(*                                                                         *)
(* The file is missing, unreadable (open raises an OSError other than      *)
(* FileNotFoundError), not UTF-8 text, text that is not JSON, or a JSON    *)
(* document.  A JSON value is an object (a dict of JSON values), an        *)
(* integer, null, a list or a string.                                      *)
(***************************************************************************)
JInt(n) == [t |-> "int", n |-> n]
JNull == [t |-> "null"]
JList == [t |-> "list"]
JStr == [t |-> "str"]
JObj(m) == [t |-> "obj", m |-> m]

JsonFile(doc) == [t |-> "json", doc |-> doc]

\* the Python value json.load gives for a JSON number
FromJson(v) == IF v.t = "int" THEN v.n ELSE v

\* key in v : a dict has the key, a list or a string of other content does
\* not hold it, a number or None is not a container
JsonIn(key, v) ==
    CASE v.t = "obj" -> Return(DictHas(v.m, key))
      [] v.t \in {"list", "str"} -> Return(FALSE)
      [] OTHER -> Raise("TypeError")

\* v.get(key, default) of a JSON object
JsonGet(v, key, default) == DictGet(v.m, key, default)

\* the loop over card_stats.items() that builds the CardStats of each key
DecodeCardStats(v) ==
    IF v.t # "obj" THEN Raise("AttributeError")
    ELSE IF \E i \in 1..Len(v.m) : v.m[i].v.t # "obj"
    THEN Raise("AttributeError")
    ELSE Return([i \in 1..Len(v.m) |->
                    [k |-> v.m[i].k,
                     v |-> CardStats(
                               FromJson(JsonGet(v.m[i].v, "correct", JInt(0))),
                               FromJson(JsonGet(v.m[i].v, "total", JInt(0))))]])

\* FlashcardSetStats from the fields of one JSON object
DecodeSetStats(v, card_stats) ==
    FlashcardSetStats(FromJson(JsonGet(v, "correct_answers", JInt(0))),
                      FromJson(JsonGet(v, "total_attempts", JInt(0))),
                      card_stats)

LoadLegacy_wrong(stats) ==
    IF stats.t # "obj" THEN Raise("AttributeError")
    ELSE LET cs == DecodeCardStats(JsonGet(stats, "card_stats", JObj(<<>>)))
         IN  IF cs.exc # "none" THEN cs
             ELSE Return(<<[k |-> "legacy_data",
                            v |-> DecodeSetStats(stats, EmptyDict)]>>)

\* the branch that migrates the old format
LoadLegacy(stats) ==
    IF stats.t # "obj" THEN Raise("AttributeError")
    ELSE LET cs == DecodeCardStats(JsonGet(stats, "card_stats", JObj(<<>>)))
         IN  IF cs.exc # "none" THEN cs
             ELSE Return(<<[k |-> "legacy_data",
                            v |-> DecodeSetStats(stats, cs.value)]>>)

\* the branch that loads the per-set format
LoadCurrent(stats) ==
    IF stats.t # "obj" THEN Raise("AttributeError")
    ELSE LET sets == JsonGet(stats, "flashcard_sets", JObj(<<>>))
         IN  IF sets.t # "obj" THEN Raise("AttributeError")
             ELSE IF \E i \in 1..Len(sets.m) : sets.m[i].v.t # "obj"
             THEN Raise("AttributeError")
             ELSE IF \E i \in 1..Len(sets.m) :
                        DecodeCardStats(JsonGet(sets.m[i].v, "card_stats",
                                                JObj(<<>>))).exc # "none"
             THEN Raise("AttributeError")
             ELSE Return([i \in 1..Len(sets.m) |->
                     [k |-> sets.m[i].k,
                      v |-> DecodeSetStats(
                                sets.m[i].v,
                                DecodeCardStats(
                                    JsonGet(sets.m[i].v, "card_stats",
                                            JObj(<<>>))).value)]])

\* a load that migrates whenever the root has correct_answers
load_statistics_file_migrating(file) ==
    CASE file.t = "missing" -> Return(EmptyDict)
      [] file.t = "unreadable" -> Raise("PermissionError")
      [] file.t = "not_utf8" -> Raise("UnicodeDecodeError")
      [] file.t = "not_json" -> Return(EmptyDict)
      [] file.t = "json" ->
            LET stats == file.doc
                has_correct == JsonIn("correct_answers", stats)
            IN  IF has_correct.exc # "none" THEN has_correct
                ELSE IF has_correct.value
                THEN LoadLegacy(stats)
                ELSE LoadCurrent(stats)

load_statistics_file(file) ==
    CASE file.t = "missing" -> Return(EmptyDict)
      [] file.t = "unreadable" -> Raise("PermissionError")
      [] file.t = "not_utf8" -> Raise("UnicodeDecodeError")
      [] file.t = "not_json" -> Return(EmptyDict)
      [] file.t = "json" ->
            LET stats == file.doc
                has_correct == JsonIn("correct_answers", stats)
                has_sets == JsonIn("flashcard_sets", stats)
            IN  IF has_correct.exc # "none" THEN has_correct
                ELSE IF has_correct.value /\ ~has_sets.value
                THEN LoadLegacy(stats)
                ELSE LoadCurrent(stats)

(***************************************************************************)
(* The documents the load is examined on                                   *)
(***************************************************************************)
SetNames == {"python", "legacy_data", "tmp_set"}

\* the dicts that hold each key of the sequence keys, in that order, or not
RECURSIVE OptionalFields(_, _)
OptionalFields(keys, values) ==
    IF keys = <<>> THEN {<<>>}
    ELSE LET rest == OptionalFields(Tail(keys), values)
         IN  rest \cup {<<[k |-> Head(keys), v |-> x]>> \o r :
                            x \in values, r \in rest}

JInts == {JInt(n) : n \in Counts}

CardDataDocs ==
    {JObj(m) : m \in OptionalFields(<<"correct", "total">>, JInts)}
    \cup {JInt(0)}

CardStatsDocs ==
    {JObj(m) : m \in {d \in SeqsUpTo([k : CardKeys, v : CardDataDocs], 1) :
                         IsDict(d)}}
    \cup {JObj(<<[k |-> CardKey(Card1), v |-> x],
                 [k |-> CardKey(Card3), v |-> y]>>) :
             x, y \in {JObj(<<[k |-> "correct", v |-> JInt(1)],
                              [k |-> "total", v |-> JInt(MaxCount)]>>),
                       JObj(<<[k |-> "correct", v |-> JInt(0)],
                              [k |-> "total", v |-> JInt(1)]>>)}}
    \cup {JList}

\* the fields of a set: also the fields of the root of a legacy document
SetFieldDicts ==
    {a \o b \o c :
        a \in OptionalFields(<<"correct_answers">>, JInts),
        b \in OptionalFields(<<"total_attempts">>, JInts),
        c \in OptionalFields(<<"card_stats">>, CardStatsDocs)}

SetDocs == {JObj(m) : m \in SetFieldDicts} \cup {JNull}

SetsDocs ==
    {JObj(<<[k |-> n, v |-> x]>>) : n \in SetNames, x \in SetDocs}
    \cup {JObj(<<>>), JList, JNull}

RootDocs ==
    {JObj(m) : m \in SetFieldDicts}
    \cup {JObj(<<[k |-> "flashcard_sets", v |-> x]>>) : x \in SetsDocs}
    \cup {JObj(<<[k |-> "correct_answers", v |-> JInt(1)],
                 [k |-> "flashcard_sets", v |-> x]>>) : x \in SetsDocs}
    \cup {JList, JStr, JNull, JInt(0)}

Files ==
    {[t |-> "missing"], [t |-> "unreadable"], [t |-> "not_utf8"],
     [t |-> "not_json"]}
    \cup {JsonFile(d) : d \in RootDocs}

InitLoad ==
    /\ call = [fn |-> "load_statistics_file", done |-> FALSE]
    /\ ret = NoRet
    /\ stats_file \in Files
    /\ AppIdleButFile

CallLoadStatisticsFile ==
    /\ call.fn = "load_statistics_file"
    /\ ~call.done
    /\ ret' = load_statistics_file(stats_file)
    /\ call' = [call EXCEPT !.done = TRUE]
    /\ UNCHANGED appVars

NextLoad == CallLoadStatisticsFile

SpecLoad == InitLoad /\ [][NextLoad]_vars

\* a JSON object whose fields correct and total are integers
IsCardDataDoc(v) ==
    /\ v.t = "obj"
    /\ DictHas(v.m, "correct") /\ DictAt(v.m, "correct").t = "int"
    /\ DictHas(v.m, "total") /\ DictAt(v.m, "total").t = "int"

\* a document in the legacy schema: correct_answers, total_attempts and
\* card_stats at the root, no flashcard_sets
IsLegacyDocument(file) ==
    /\ file.t = "json"
    /\ file.doc.t = "obj"
    /\ ~DictHas(file.doc.m, "flashcard_sets")
    /\ DictHas(file.doc.m, "correct_answers")
    /\ DictAt(file.doc.m, "correct_answers").t = "int"
    /\ DictHas(file.doc.m, "total_attempts")
    /\ DictAt(file.doc.m, "total_attempts").t = "int"
    /\ DictHas(file.doc.m, "card_stats")
    /\ DictAt(file.doc.m, "card_stats").t = "obj"
    /\ \A i \in 1..Len(DictAt(file.doc.m, "card_stats").m) :
           IsCardDataDoc(DictAt(file.doc.m, "card_stats").m[i].v)

\* C9: loading a document in the legacy schema yields a map with the one key
\* "legacy_data" whose correct_answers, total_attempts and per-card correct
\* and total are those of the document.
LoadLegacyContract ==
    (call.fn = "load_statistics_file" /\ call.done
        /\ IsLegacyDocument(stats_file)) =>
        LET root == stats_file.doc.m
            cards == DictAt(root, "card_stats").m
        IN  /\ ret.exc = "none"
            /\ Len(ret.value) = 1
            /\ ret.value[1].k = "legacy_data"
            /\ ret.value[1].v.correct_answers
                   = DictAt(root, "correct_answers").n
            /\ ret.value[1].v.total_attempts
                   = DictAt(root, "total_attempts").n
            /\ IsDict(ret.value[1].v.card_stats)
            /\ DictKeys(ret.value[1].v.card_stats) = DictKeys(cards)
            /\ \A key \in DictKeys(cards) :
                   /\ DictAt(ret.value[1].v.card_stats, key).correct
                          = DictAt(DictAt(cards, key).m, "correct").n
                   /\ DictAt(ret.value[1].v.card_stats, key).total
                          = DictAt(DictAt(cards, key).m, "total").n

\* Witness of C9: a legacy document with two cards and attempts was loaded.
LoadLegacyWitness ==
    /\ call.fn = "load_statistics_file"
    /\ call.done
    /\ IsLegacyDocument(stats_file)
    /\ Len(DictAt(stats_file.doc.m, "card_stats").m) = 2
    /\ DictAt(stats_file.doc.m, "total_attempts").n > 0
    /\ ret.exc = "none"
    /\ Len(ret.value[1].v.card_stats) = 2

\* C10 as claimed: loading never raises, and a missing file, an unreadable
\* file and content that is not a JSON object give the empty map.
LoadNeverRaises ==
    (call.fn = "load_statistics_file" /\ call.done) =>
        /\ ret.exc = "none"
        /\ (stats_file.t # "json" \/ stats_file.doc.t # "obj")
               => ret.value = EmptyDict

(***************************************************************************)
(* Saving the statistics file (src/src/io/operations.py)                   *)
(***************************************************************************)
CardStatsToJson(card_stats) ==
    JObj([i \in 1..Len(card_stats) |->
            [k |-> card_stats[i].k,
             v |-> JObj(<<[k |-> "correct",
                           v |-> JInt(card_stats[i].v.correct)],
                          [k |-> "total",
                           v |-> JInt(card_stats[i].v.total)]>>)]])

\* a conversion that writes the attempts under another field name
SetStatsToJson_wrong(stats) ==
    JObj(<<[k |-> "correct_answers", v |-> JInt(stats.correct_answers)],
           [k |-> "attempts", v |-> JInt(stats.total_attempts)],
           [k |-> "card_stats", v |-> CardStatsToJson(stats.card_stats)]>>)

SetStatsToJson(stats) ==
    JObj(<<[k |-> "correct_answers", v |-> JInt(stats.correct_answers)],
           [k |-> "total_attempts", v |-> JInt(stats.total_attempts)],
           [k |-> "card_stats", v |-> CardStatsToJson(stats.card_stats)]>>)

\* a conversion that writes migrated data back in the old format
StatsDataToJson_legacy(set_stats) ==
    IF DictHas(set_stats, "legacy_data")
    THEN SetStatsToJson(DictAt(set_stats, "legacy_data"))
    ELSE JObj(<<[k |-> "flashcard_sets",
                 v |-> JObj([i \in 1..Len(set_stats) |->
                               [k |-> set_stats[i].k,
                                v |-> SetStatsToJson(set_stats[i].v)]])]>>)

\* stats_data = {"flashcard_sets": flashcard_sets_dict}
StatsDataToJson(set_stats) ==
    JObj(<<[k |-> "flashcard_sets",
            v |-> JObj([i \in 1..Len(set_stats) |->
                          [k |-> set_stats[i].k,
                           v |-> SetStatsToJson(set_stats[i].v)]])]>>)

\* What the disk does with one write: "ok", open() raises (the file keeps
\* its content), or the write raises after open() has truncated the file.
SaveOutcomes == {"ok", "open_failed", "write_failed"}

\* a save that reports success whatever the disk did
save_statistics_file_wrong(file, set_stats, outcome) ==
    CASE outcome = "ok" ->
            [file |-> JsonFile(StatsDataToJson(set_stats)), result |-> TRUE]
      [] outcome = "open_failed" -> [file |-> file, result |-> TRUE]
      [] outcome = "write_failed" ->
            [file |-> [t |-> "not_json"], result |-> TRUE]

\* the file after the call and the boolean returned
save_statistics_file(file, set_stats, outcome) ==
    CASE outcome = "ok" ->
            [file |-> JsonFile(StatsDataToJson(set_stats)), result |-> TRUE]
      [] outcome = "open_failed" -> [file |-> file, result |-> FALSE]
      [] outcome = "write_failed" ->
            [file |-> [t |-> "not_json"], result |-> FALSE]

(***************************************************************************)
(* accuracy and the session summary                                        *)
(* (src/src/core/types.py, src/flashcard_statistics.py,                    *)
(*  src/src/ui/interface.py)                                               *)
(***************************************************************************)
\* the ratio correct / total, not multiplied by 100
Accuracy_ratio(correct, total) ==
    IF total > 0 THEN [num |-> correct, den |-> total]
    ELSE [num |-> 0, den |-> 1]

\* correct / total * 100 as the fraction num/den, 0.0 when total is 0
Accuracy(correct, total) ==
    IF total > 0 THEN [num |-> correct * 100, den |-> total]
    ELSE [num |-> 0, den |-> 1]

calculate_session_summary(studied, set_stats) ==
    [cards_studied |-> studied,
     accuracy |-> Accuracy(set_stats.correct_answers, set_stats.total_attempts),
     total_attempts |-> set_stats.total_attempts,
     correct_answers |-> set_stats.correct_answers]

\* a summary printed whatever the attempts
show_session_summary_always(session_summary) == session_summary

\* the summary the console shows: None when nothing is printed
show_session_summary(session_summary) ==
    IF session_summary.total_attempts > 0 THEN session_summary ELSE None

(***************************************************************************)
(* run_study_session (src/src/core/session.py, src/study_session.py)       *)
(***************************************************************************)
MaxAttempts == 4

\* the orders random.shuffle can leave a list in
Shuffles(l) ==
    {[i \in 1..Len(l) |-> l[f[i]]] :
        f \in {g \in [1..Len(l) -> 1..Len(l)] :
                  \A i, j \in 1..Len(l) : g[i] = g[j] => i = j}}

\* a preparation that shuffles whatever the flag says
prepare_cards_shuffling(fset, randomize) == Shuffles(fset.cards)

prepare_cards(fset, randomize) ==
    IF randomize THEN Shuffles(fset.cards) ELSE {fset.cards}

create_study_session(cards, randomize) == StudySession(cards, 0, 0, randomize)

Responses == {"y", "n", "s", "q"}

StudyStep_advancing_skip(s, stats, studied, r) ==
    LET current == progress(s)[1]
        card == current_card(s).value
    IN  CASE r = "q" ->
                [session |-> s, stats |-> stats, studied |-> studied,
                 exit |-> TRUE]
          [] r = "s" ->
                [session |-> advance_session(s, FALSE), stats |-> stats,
                 studied |-> current, exit |-> TRUE]
          [] OTHER ->
                [session |-> advance_session(s, r = "y"),
                 stats |-> update_set_stats(stats, card, r = "y"),
                 studied |-> current,
                 exit |-> is_complete(advance_session(s, r = "y"))]

\* a quit that counts the card it was given on
StudyStep_quit_counting(s, stats, studied, r) ==
    LET current == progress(s)[1]
        card == current_card(s).value
    IN  CASE r \in {"q", "s"} ->
                [session |-> s, stats |-> stats, studied |-> current,
                 exit |-> TRUE]
          [] OTHER ->
                [session |-> advance_session(s, r = "y"),
                 stats |-> update_set_stats(stats, card, r = "y"),
                 studied |-> current,
                 exit |-> is_complete(advance_session(s, r = "y"))]

StudyStep_counting_skip(s, stats, studied, r) ==
    LET current == progress(s)[1]
        card == current_card(s).value
    IN  CASE r = "q" ->
                [session |-> s, stats |-> stats, studied |-> studied,
                 exit |-> TRUE]
          [] r = "s" ->
                [session |-> s,
                 stats |-> update_set_stats(stats, card, FALSE),
                 studied |-> current, exit |-> TRUE]
          [] OTHER ->
                [session |-> advance_session(s, r = "y"),
                 stats |-> update_set_stats(stats, card, r = "y"),
                 studied |-> current,
                 exit |-> is_complete(advance_session(s, r = "y"))]

\* One pass of the while loop from the response read to the next loop test:
\* the session, the running statistics and cards_studied after it, and
\* whether the loop is left.
StudyStep(s, stats, studied, r) ==
    LET current == progress(s)[1]
        card == current_card(s).value
    IN  CASE r = "q" ->
                [session |-> s, stats |-> stats, studied |-> studied,
                 exit |-> TRUE]
          [] r = "s" ->
                [session |-> s, stats |-> stats, studied |-> current,
                 exit |-> TRUE]
          [] OTHER ->
                [session |-> advance_session(s, r = "y"),
                 stats |-> update_set_stats(stats, card, r = "y"),
                 studied |-> current,
                 exit |-> is_complete(advance_session(s, r = "y"))]

(***************************************************************************)
(* The menu dispatcher main.py imports (src/study_session.py) and the      *)
(* application loop (src/main.py)                                          *)
(***************************************************************************)
\* choices=["1", "2", "s", "q"]
MenuTokens == {"1", "2", "s", "q"}

\* what handle_menu_choice does for a token
handle_menu_choice(token) ==
    CASE token = "1" -> [action |-> "study", randomize |-> FALSE]
      [] token = "2" -> [action |-> "study", randomize |-> TRUE]
      [] token = "3" -> [action |-> "statistics"]
      [] token = "4" -> [action |-> "exit"]
      [] OTHER -> [action |-> "none"]

\* a main loop that keeps and saves the current set alone
StoreAndSave_current_only(result, shown, outcome) ==
    LET updated == DictSet(EmptyDict, flashcard_set.name, result)
        saved == save_statistics_file(stats_file, updated, outcome)
    IN  /\ current_set_stats' = result
        /\ app_state' = updated
        /\ stats_file' = saved.file
        /\ console' = [summary |-> shown,
                       warned |-> console.warned \/ ~saved.result]

\* a main loop that keeps the result only when the save succeeded
StoreAndSave_dropping(result, shown, outcome) ==
    LET updated == DictSet(app_state, flashcard_set.name, result)
        saved == save_statistics_file(stats_file, updated, outcome)
    IN  /\ current_set_stats' =
               IF saved.result THEN result ELSE current_set_stats
        /\ app_state' = IF saved.result THEN updated ELSE app_state
        /\ stats_file' = saved.file
        /\ console' = [summary |-> shown,
                       warned |-> console.warned \/ ~saved.result]

\* The branch of the main loop that stores a FlashcardSetStats result and
\* saves the map: the values of the variables after it.
StoreAndSave(result, shown, outcome) ==
    LET updated == DictSet(app_state, flashcard_set.name, result)
        saved == save_statistics_file(stats_file, updated, outcome)
    IN  /\ current_set_stats' = result
        /\ app_state' = updated
        /\ stats_file' = saved.file
        /\ console' = [summary |-> shown,
                       warned |-> console.warned \/ ~saved.result]

\* The card files of the model: the first n cards of a deck in which the
\* first two cards have different keys and the third shares the first's.
DeckCard(i) ==
    CASE i % 3 = 1 -> Card1
      [] i % 3 = 2 -> Card3
      [] OTHER -> Card2

AppCardLists == {[i \in 1..n |-> DeckCard(i)] : n \in 0..MaxCards}

LegacyDocument ==
    JObj(<<[k |-> "correct_answers", v |-> JInt(1)],
           [k |-> "total_attempts", v |-> JInt(2)],
           [k |-> "card_stats",
            v |-> CardStatsToJson(<<[k |-> CardKey(Card3),
                                     v |-> CardStats(1, 2)]>>)]>>)

CurrentDocument ==
    StatsDataToJson(
        <<[k |-> "tmp_set", v |-> FlashcardSetStats(0, 1, EmptyDict)],
          [k |-> "python",
           v |-> FlashcardSetStats(1, 1,
                     <<[k |-> CardKey(Card1), v |-> CardStats(1, 1)]>>)]>>)

AppFiles ==
    {[t |-> "missing"], [t |-> "not_json"], [t |-> "unreadable"],
     JsonFile(LegacyDocument), JsonFile(CurrentDocument), JsonFile(JList)}

Init ==
    /\ call = NoCall
    /\ ret = NoRet
    /\ stats_file \in AppFiles
    /\ flashcard_set \in {[cards |-> l, name |-> "python"] : l \in AppCardLists}
    /\ app_state = EmptyDict
    /\ current_set_stats = EmptySetStats
    /\ session = StudySession(<<>>, 0, 0, FALSE)
    /\ current_stats = EmptySetStats
    /\ cards_studied = 0
    /\ response = "none"
    /\ console = [summary |-> None, warned |-> FALSE]
    /\ choice = "none"
    /\ selection_state = None
    /\ pc \in {"start", "select_start"}

\* run_flashcard_app up to the first menu: the statistics are loaded; an
\* exception of the load ends the process
StartFlashcardApp ==
    LET loaded == load_statistics_file(stats_file)
    IN  IF loaded.exc # "none"
        THEN /\ pc' = "crashed"
             /\ UNCHANGED <<app_state, current_set_stats>>
        ELSE /\ app_state' = loaded.value
             /\ current_set_stats' =
                    DictGet(loaded.value, flashcard_set.name, EmptySetStats)
             /\ pc' = "menu"

\* main() with a file argument
Startup ==
    /\ pc = "start"
    /\ StartFlashcardApp
    /\ UNCHANGED <<call, ret, stats_file, flashcard_set, session,
                   current_stats, cards_studied, response, console, choice,
                   selection_state>>

\* main() without a file argument: run_set_selection_menu loads the
\* statistics before its first menu
SelectionStartup ==
    /\ pc = "select_start"
    /\ LET loaded == load_statistics_file(stats_file)
       IN  IF loaded.exc # "none"
           THEN /\ pc' = "crashed"
                /\ UNCHANGED selection_state
           ELSE /\ selection_state' = loaded.value
                /\ pc' = "select"
    /\ UNCHANGED <<call, ret, stats_file, flashcard_set, app_state,
                   current_set_stats, session, current_stats, cards_studied,
                   response, console, choice>>

\* the selection menu: the global statistics view or quit
SelectCommand ==
    /\ pc = "select"
    /\ \E c \in {"stats", "quit"} :
           /\ choice' = c
           /\ pc' = IF c = "quit" THEN "exited" ELSE "select"
    /\ UNCHANGED <<call, ret, stats_file, flashcard_set, app_state,
                   current_set_stats, session, current_stats, cards_studied,
                   response, console, selection_state>>

\* the selection menu: a set is chosen and run_flashcard_app runs up to its
\* first menu
SelectSet ==
    /\ pc = "select"
    /\ choice' = "set"
    /\ StartFlashcardApp
    /\ UNCHANGED <<call, ret, stats_file, flashcard_set, session,
                   current_stats, cards_studied, response, console,
                   selection_state>>

\* a session without cards that falls through to the summary
run_study_session_no_cards_summarising(set_stats) ==
    [stats |-> set_stats, studied |-> 0,
     summary |-> show_session_summary(calculate_session_summary(0, set_stats))]

\* run_study_session on a set without cards: the early return, with nothing
\* but the message printed
run_study_session_no_cards(set_stats) ==
    [stats |-> set_stats, studied |-> 0, summary |-> None]

\* a study command on a set without cards: run_study_session returns the
\* statistics it was given, which the main loop stores and saves
StudyNoCards ==
    /\ pc = "menu"
    /\ \E token \in MenuTokens :
           /\ handle_menu_choice(token).action = "study"
           /\ choice' = token
    /\ flashcard_set.cards = <<>>
    /\ LET run == run_study_session_no_cards(current_set_stats)
       IN  /\ cards_studied' = run.studied
           /\ \E outcome \in SaveOutcomes :
                  StoreAndSave(run.stats, run.summary, outcome)
    /\ UNCHANGED <<call, ret, flashcard_set, session, current_stats,
                   response, selection_state, pc>>

\* a study command: run_study_session up to the first response prompt
StartStudy ==
    /\ pc = "menu"
    /\ flashcard_set.cards # <<>>
    /\ current_set_stats.total_attempts + Len(flashcard_set.cards)
           <= MaxAttempts
    /\ \E token \in MenuTokens :
           /\ handle_menu_choice(token).action = "study"
           /\ choice' = token
           /\ \E cards \in prepare_cards(flashcard_set,
                               handle_menu_choice(token).randomize) :
                  session' = create_study_session(
                                 cards, handle_menu_choice(token).randomize)
    /\ current_stats' = current_set_stats
    /\ cards_studied' = 0
    /\ response' = "none"
    /\ console' = [console EXCEPT !.summary = None]
    /\ pc' = "card"
    /\ UNCHANGED <<call, ret, stats_file, flashcard_set, app_state,
                   current_set_stats, selection_state>>

\* a response to a card that keeps the loop going: the next card is shown
Respond ==
    /\ pc = "card"
    /\ \E r \in Responses :
           LET step == StudyStep(session, current_stats, cards_studied, r)
           IN  /\ ~step.exit
               /\ response' = r
               /\ session' = step.session
               /\ current_stats' = step.stats
               /\ cards_studied' = step.studied
    /\ UNCHANGED <<call, ret, stats_file, flashcard_set, app_state,
                   current_set_stats, console, choice, selection_state, pc>>

\* a response that ends the loop: the summary, the return to the main loop,
\* which stores and saves the statistics, and the menu again
RespondAndLeave ==
    /\ pc = "card"
    /\ \E r \in Responses :
           LET step == StudyStep(session, current_stats, cards_studied, r)
               summary == calculate_session_summary(step.studied, step.stats)
           IN  /\ step.exit
               /\ response' = r
               /\ session' = step.session
               /\ current_stats' = step.stats
               /\ cards_studied' = step.studied
               /\ \E outcome \in SaveOutcomes :
                      StoreAndSave(step.stats, show_session_summary(summary),
                                   outcome)
    /\ pc' = "menu"
    /\ UNCHANGED <<call, ret, flashcard_set, choice, selection_state>>

\* a token the dispatcher does not start a session for; on the exit signal
\* run_flashcard_app returns: the process ends, or the selection menu loads
\* the statistics file again
MenuCommand ==
    /\ pc = "menu"
    /\ \E token \in MenuTokens :
           /\ handle_menu_choice(token).action # "study"
           /\ choice' = token
           /\ IF handle_menu_choice(token).action # "exit"
              THEN pc' = "menu" /\ UNCHANGED selection_state
              ELSE IF selection_state = None
              THEN pc' = "exited" /\ UNCHANGED selection_state
              ELSE LET loaded == load_statistics_file(stats_file)
                   IN  IF loaded.exc # "none"
                       THEN pc' = "crashed" /\ UNCHANGED selection_state
                       ELSE /\ selection_state' = loaded.value
                            /\ pc' = "select"
    /\ UNCHANGED <<call, ret, stats_file, flashcard_set, app_state,
                   current_set_stats, session, current_stats, cards_studied,
                   response, console>>

Next ==
    \/ Startup
    \/ SelectionStartup
    \/ SelectCommand
    \/ SelectSet
    \/ StudyNoCards
    \/ StartStudy
    \/ Respond
    \/ RespondAndLeave
    \/ MenuCommand

Spec == Init /\ [][Next]_vars

\* the statistics of the current set as a fresh load of the file gives them
StoredSetStats ==
    DictGet(load_statistics_file(stats_file).value, flashcard_set.name,
            EmptySetStats)

\* C1 as claimed: whenever a card is presented the statistics file holds the
\* statistics of every response given so far (no save has failed).
SavedBeforeNextCard ==
    (pc = "card" /\ ~console.warned) =>
        /\ load_statistics_file(stats_file).exc = "none"
        /\ StoredSetStats = current_stats

\* C6 as claimed: after a quit response no session summary is displayed,
\* while after a skip response the summary of a set with attempts is.
QuitShowsNoSummary ==
    /\ (pc = "menu" /\ response = "q") => console.summary = None
    /\ (pc = "menu" /\ response = "s"
           /\ current_set_stats.total_attempts > 0) => console.summary # None

\* C7: a skip response on the card with progress value p leaves the loop in
\* the same step with cards_studied = p and the session not advanced.
SkipContract ==
    [][(pc = "card" /\ response' = "s") =>
          /\ pc' = "menu"
          /\ cards_studied' = session.current_index + 1
          /\ session' = session]_vars

\* Witness of C7: the second card of a session was skipped.
SkipWitness ==
    /\ pc = "menu"
    /\ response = "s"
    /\ cards_studied = 2
    /\ session.current_index = 1
    /\ Len(session.cards) = 3

\* C8: a yes/no response adds exactly one attempt (and one correct answer
\* iff yes) to the running statistics; a skip or quit response leaves them
\* as they were and they are what the session returns to the main loop.
EngineOncePerAnswer ==
    [][(pc = "card") =>
          /\ response' \in {"y", "n"} =>
                /\ current_stats'.total_attempts
                       = current_stats.total_attempts + 1
                /\ current_stats'.correct_answers
                       = current_stats.correct_answers
                             + (IF response' = "y" THEN 1 ELSE 0)
          /\ response' \in {"s", "q"} =>
                /\ current_stats' = current_stats
                /\ pc' = "menu"
                /\ current_set_stats' = current_stats]_vars

\* Witness of C8: a session was left by skip after one answer.
EngineOncePerAnswerWitness ==
    /\ pc = "menu"
    /\ response = "s"
    /\ session.current_index = 1
    /\ current_set_stats.total_attempts = 1
    /\ current_set_stats = current_stats

\* C23: when the loop of a session ends by completion or by skip, the
\* session summary is displayed if and only if the total_attempts of the
\* set's statistics is greater than 0.
SummaryIffAttempts ==
    [][(pc = "card" /\ pc' = "menu" /\ response' # "q") =>
          /\ is_complete(session') \/ response' = "s"
          /\ (console'.summary # None)
                 <=> (current_stats'.total_attempts > 0)
          /\ console'.summary # None =>
                 console'.summary
                     = calculate_session_summary(cards_studied', current_stats')
          /\ current_set_stats' = current_stats']_vars

\* the first card of a set without attempts was skipped: no summary
SummaryIffAttemptsWitness ==
    /\ pc = "menu"
    /\ response = "s"
    /\ session.current_index = 0
    /\ cards_studied = 1
    /\ current_set_stats.total_attempts = 0
    /\ console.summary = None

\* l is m in some order
IsReordering(l, m) ==
    /\ Len(l) = Len(m)
    /\ \A c \in Cards :
           Cardinality({i \in 1..Len(l) : l[i] = c})
               = Cardinality({i \in 1..Len(m) : m[i] = c})

\* C24: a session starts at current_index 0 and correct_count 0 with the
\* cards of the set in file order when randomize is false and in one
\* shuffled order when it is true; every later step of the session leaves
\* cards and randomized as they are.
CardsFixedAtCreation ==
    [][/\ (pc = "menu" /\ pc' = "card") =>
              /\ session'.current_index = 0
              /\ session'.correct_count = 0
              /\ session'.randomized = (choice' = "2")
              /\ ~session'.randomized => session'.cards = flashcard_set.cards
              /\ session'.randomized =>
                     IsReordering(session'.cards, flashcard_set.cards)
       /\ pc = "card" =>
              /\ session'.cards = session.cards
              /\ session'.randomized = session.randomized
              /\ response' \in {"y", "n"} =>
                     session'.current_index = session.current_index + 1
       /\ flashcard_set' = flashcard_set]_vars

\* a shuffled session, not in file order, after its first answer
CardsFixedAtCreationWitness ==
    /\ pc = "card"
    /\ session.randomized
    /\ session.cards # flashcard_set.cards
    /\ session.current_index = 1
    /\ response \in {"y", "n"}

\* C29: a study command on a set with no cards presents no card, returns
\* the statistics it was given with cards_studied = 0 and shows no summary.
NoCardsNoSession ==
    [][(pc = "menu" /\ choice' \in {"1", "2"} /\ flashcard_set.cards = <<>>) =>
          /\ pc' = "menu"
          /\ session' = session
          /\ response' = response
          /\ current_set_stats' = current_set_stats
          /\ DictGet(app_state', flashcard_set.name, EmptySetStats)
                 = current_set_stats
          /\ cards_studied' = 0
          /\ console'.summary = None]_vars

\* a study command was given on a set with no cards whose statistics hold
\* attempts
NoCardsNoSessionWitness ==
    /\ pc = "menu"
    /\ choice \in {"1", "2"}
    /\ flashcard_set.cards = <<>>
    /\ current_set_stats.total_attempts > 0
    /\ cards_studied = 0
    /\ console.summary = None

\* C27 as claimed: the statistics file is read at startup and read again
\* when the user returns from a set to the selection menu (the quit command
\* of the set menu), so that the global statistics view shows what the file
\* holds at the return.
ReloadOnReturn ==
    [][/\ (pc = "select_start" /\ pc' = "select") =>
              selection_state' = load_statistics_file(stats_file).value
       /\ (pc = "menu" /\ selection_state # None /\ choice' = "q"
              /\ load_statistics_file(stats_file).exc = "none") =>
              /\ pc' = "select"
              /\ selection_state' = load_statistics_file(stats_file).value]_vars

\* C30 as claimed: once the user selects the quit command in the set menu
\* the main loop of run_flashcard_app terminates.
QuitEndsMainLoop ==
    [][(pc = "menu" /\ choice' = "q") => pc' # "menu"]_vars

\* C35: when run_flashcard_app stores the statistics returned for the
\* current set, the entry of every other set of the map, "legacy_data"
\* included, is carried over unchanged into the map it keeps and saves;
\* only the entry of the current set is replaced.
OtherSetsCarriedOver ==
    [][(pc \in {"menu", "card"} /\ pc' = "menu" /\ choice' \in {"1", "2"}) =>
          /\ IsDict(app_state')
          /\ DictKeys(app_state')
                 = DictKeys(app_state) \cup {flashcard_set.name}
          /\ \A name \in DictKeys(app_state) \ {flashcard_set.name} :
                 DictAt(app_state', name) = DictAt(app_state, name)
          /\ DictAt(app_state', flashcard_set.name) = current_set_stats'
          /\ \/ load_statistics_file(stats_file') = Return(app_state')
             \/ /\ console'.warned
                /\ stats_file' \in {stats_file, [t |-> "not_json"]}]_vars

\* a session on a set without entry was stored next to the migrated
\* "legacy_data", and the file holds both
OtherSetsCarriedOverWitness ==
    /\ pc = "menu"
    /\ response \in {"y", "n"}
    /\ DictKeys(app_state) = {"legacy_data", "python"}
    /\ DictAt(app_state, "legacy_data").total_attempts = 2
    /\ DictAt(app_state, "python").total_attempts > 0
    /\ load_statistics_file(stats_file) = Return(app_state)

\* the running statistics are the initial ones plus what the session record
\* counts
SessionAgrees(stats, s, initial) ==
    /\ stats.total_attempts = initial.total_attempts + s.current_index
    /\ stats.correct_answers = initial.correct_answers + s.correct_count

\* C31: at every iteration of the loop of run_study_session, and when the
\* loop is left, total_attempts is the initial total_attempts plus
\* current_index and correct_answers the initial correct_answers plus
\* correct_count.
SessionMatchesStatistics ==
    [][pc = "card" =>
          /\ SessionAgrees(current_stats, session, current_set_stats)
          /\ SessionAgrees(current_stats', session', current_set_stats)]_vars

\* the third card of a session on statistics that had attempts is shown
\* after one right and one wrong answer
SessionMatchesStatisticsWitness ==
    /\ pc = "card"
    /\ session.current_index = 2
    /\ session.correct_count = 1
    /\ current_set_stats.total_attempts > 0
    /\ current_stats.total_attempts = current_set_stats.total_attempts + 2

(***************************************************************************)
(* Specification of the study sessions of one run of run_flashcard_app, in  *)
(* which the user answers every prompt: a response prompt that is shown    *)
(* is answered.                                                            *)
(***************************************************************************)
InitStudy ==
    /\ call = NoCall
    /\ ret = NoRet
    /\ stats_file \in {[t |-> "missing"], JsonFile(CurrentDocument)}
    /\ flashcard_set \in {[cards |-> l, name |-> "python"] : l \in AppCardLists}
    /\ app_state = EmptyDict
    /\ current_set_stats = EmptySetStats
    /\ session = StudySession(<<>>, 0, 0, FALSE)
    /\ current_stats = EmptySetStats
    /\ cards_studied = 0
    /\ response = "none"
    /\ console = [summary |-> None, warned |-> FALSE]
    /\ choice = "none"
    /\ selection_state = None
    /\ pc = "start"

NextStudy ==
    \/ Startup
    \/ StudyNoCards
    \/ StartStudy
    \/ Respond
    \/ RespondAndLeave
    \/ MenuCommand

SpecStudy ==
    InitStudy /\ [][NextStudy]_vars /\ WF_vars(Respond \/ RespondAndLeave)

\* C32: a study session over n cards terminates.  Each yes/no response
\* moves current_index forward by exactly 1, the card shown always has an
\* index in 0..n-1 (progress in 1..n), the loop is left by skip, by quit and
\* as soon as current_index is n, and the next card shown is always the one
\* after the last, so no card is presented twice; a session in which the
\* prompts are answered reaches the menu.
SessionTerminates ==
    /\ [][pc = "card" =>
             LET n == Len(session.cards)
             IN  /\ session.current_index \in 0..(n - 1)
                 /\ progress(session)[1] \in 1..n
                 /\ session'.current_index \in 0..n
                 /\ response' \in {"y", "n"} =>
                        session'.current_index = session.current_index + 1
                 /\ response' \in {"s", "q"} => pc' = "menu"
                 /\ session'.current_index = n => pc' = "menu"
                 /\ pc' = "card" =>
                        /\ session'.cards = session.cards
                        /\ session'.current_index = session.current_index + 1
                        /\ session'.current_index < n]_vars
    /\ (pc = "card") ~> (pc = "menu")

\* C33: the cards_studied a session returns is the number of cards answered
\* yes/no when it ends by quit, len(cards) when it ends by completion, and
\* the number answered plus one when it ends by skip.
CardsStudiedContract ==
    [][(pc = "card" /\ pc' = "menu") =>
          LET answered == current_stats'.total_attempts
                              - current_set_stats.total_attempts
          IN  cards_studied' =
                  CASE response' = "q" -> answered
                    [] response' = "s" -> answered + 1
                    [] OTHER -> Len(session.cards)]_vars

\* a session of three cards was left by quit after one answer
CardsStudiedWitness ==
    /\ pc = "menu"
    /\ response = "q"
    /\ Len(session.cards) = 3
    /\ session.current_index = 1
    /\ cards_studied = 1

\* a session of three cards was answered to its end
SessionTerminatesWitness ==
    /\ pc = "menu"
    /\ response \in {"y", "n"}
    /\ Len(session.cards) = 3
    /\ session.current_index = 3
    /\ cards_studied = 3

(***************************************************************************)
(* Specification of the save: a statistics map, the content of the file    *)
(* and what the disk will do are drawn; one step saves, the next loads     *)
(* the file the save left (create_app_state, src/main.py).                 *)
(***************************************************************************)
\* a few statistics of sets, for maps of more than one set
SomeSetStats ==
    {EmptySetStats,
     FlashcardSetStats(1, MaxCount, <<[k |-> CardKey(Card1),
                                       v |-> CardStats(1, MaxCount)]>>),
     FlashcardSetStats(1, 1, <<[k |-> CardKey(Card3), v |-> CardStats(0, 1)],
                               [k |-> CardKey(Card1), v |-> CardStats(1, 1)]>>)}

\* the maps set name -> FlashcardSetStats that are saved: no set, one set
\* of any statistics, two sets
StatsMaps(names) ==
    {<<>>}
    \cup {<<[k |-> n, v |-> s]>> : n \in names, s \in SetStatsValues}
    \cup {<<[k |-> n[1], v |-> s1], [k |-> n[2], v |-> s2]>> :
             n \in {p \in names \X names : p[1] # p[2]},
             s1 \in SomeSetStats, s2 \in SomeSetStats}

InitSave ==
    /\ call \in {[fn |-> "save_statistics_file", done |-> FALSE,
                   reloaded |-> FALSE, set_stats |-> m, outcome |-> o] :
                     m \in StatsMaps(SetNames), o \in SaveOutcomes}
    /\ ret = NoRet
    /\ stats_file \in {[t |-> "missing"], JsonFile(JObj(<<>>))}
    /\ AppIdleButFile

CallSaveStatisticsFile ==
    /\ call.fn = "save_statistics_file"
    /\ ~call.done
    /\ LET saved == save_statistics_file(stats_file, call.set_stats,
                                         call.outcome)
       IN  /\ stats_file' = saved.file
           /\ ret' = Return(saved.result)
    /\ call' = [call EXCEPT !.done = TRUE]
    /\ UNCHANGED <<flashcard_set, app_state, current_set_stats, session,
                   current_stats, cards_studied, response, console, choice,
                   selection_state, pc>>

\* app_state = create_app_state(stats_file)
CallLoadAfterSave ==
    /\ call.fn = "save_statistics_file"
    /\ call.done
    /\ ~call.reloaded
    /\ ret' = [exc |-> ret.exc, value |-> ret.value,
               loaded |-> load_statistics_file(stats_file)]
    /\ call' = [call EXCEPT !.reloaded = TRUE]
    /\ UNCHANGED appVars

NextSave == CallSaveStatisticsFile \/ CallLoadAfterSave

SpecSave == InitSave /\ [][NextSave]_vars

\* C11: after a successful save_statistics_file, load_statistics_file returns
\* a map with the same set names and, for each set, the correct_answers,
\* total_attempts and card_stats that were saved.
SaveLoadRoundTrip ==
    (call.fn = "save_statistics_file" /\ call.reloaded /\ ret.value = TRUE)
        => /\ ret.loaded.exc = "none"
           /\ DictKeys(ret.loaded.value) = DictKeys(call.set_stats)
           /\ \A n \in DictKeys(call.set_stats) :
                LET saved == DictAt(call.set_stats, n)
                    loaded == DictAt(ret.loaded.value, n)
                IN  /\ loaded.correct_answers = saved.correct_answers
                    /\ loaded.total_attempts = saved.total_attempts
                    /\ loaded.card_stats = saved.card_stats

\* a map of two sets, one with two cards, has been saved and loaded
SaveLoadRoundTripWitness ==
    /\ call.fn = "save_statistics_file"
    /\ call.reloaded
    /\ ret.value = TRUE
    /\ Len(call.set_stats) = 2
    /\ \E n \in DictKeys(call.set_stats) :
            /\ Len(DictAt(call.set_stats, n).card_stats) = 2
            /\ DictAt(call.set_stats, n).total_attempts > 0

\* C12: save_statistics_file never raises: it returns True when the disk
\* took the write (the file then holds the JSON document) and False when
\* open() or the write failed; the statistics map passed to it is the same
\* after the call, whatever the disk did.
SaveNeverRaises ==
    [][(call.fn = "save_statistics_file" /\ ~call.done /\ call'.done)
          => /\ ret'.exc = "none"
             /\ ret'.value = (call.outcome = "ok")
             /\ ret'.value => stats_file'.t = "json"
             /\ ~ret'.value => stats_file' \in {stats_file, [t |-> "not_json"]}
             /\ call'.set_stats = call.set_stats]_vars

\* a save of statistics with attempts has failed and returned False
SaveNeverRaisesWitness ==
    /\ call.fn = "save_statistics_file"
    /\ call.done
    /\ call.outcome # "ok"
    /\ ret.exc = "none"
    /\ ret.value = FALSE
    /\ \E n \in DictKeys(call.set_stats) :
            DictAt(call.set_stats, n).total_attempts > 0

(***************************************************************************)
(* Specification of the runs over one statistics file: a run loads the     *)
(* file (create_app_state), stores and saves results of sessions (the      *)
(* main loop of run_flashcard_app, src/main.py) and ends; the next run     *)
(* loads the file the last one left.  call keeps what the runs did: the    *)
(* map of the first load, the map of the last save that succeeded, and     *)
(* whether a run has started from a file that a failed write had cut.      *)
(***************************************************************************)
\* the root has the fields of the old format
IsLegacyFile(file) ==
    /\ file.t = "json"
    /\ file.doc.t = "obj"
    /\ DictHas(file.doc.m, "correct_answers")
    /\ ~DictHas(file.doc.m, "flashcard_sets")

InitRuns ==
    /\ stats_file \in
           {f \in Files : /\ IsLegacyFile(f)
                          /\ load_statistics_file(f).exc = "none"}
           \cup {[t |-> "missing"], JsonFile(CurrentDocument)}
    /\ call = [fn |-> "run_flashcard_app", phase |-> "start",
               was_legacy |-> IsLegacyFile(stats_file),
               first |-> EmptyDict, has_saved |-> FALSE,
               saved |-> EmptyDict, reloaded |-> FALSE, lost |-> FALSE]
    /\ ret = NoRet
    /\ AppIdleButFile

\* app_state = create_app_state(stats_file)
RunCreateAppState ==
    /\ call.phase = "start"
    /\ LET loaded == load_statistics_file(stats_file)
       IN  /\ loaded.exc = "none"
           /\ app_state' = loaded.value
           /\ current_set_stats' =
                  DictGet(loaded.value, flashcard_set.name, EmptySetStats)
           /\ call' = [call EXCEPT
                          !.phase = "running",
                          !.first = IF call.first = EmptyDict
                                    THEN loaded.value ELSE call.first,
                          !.reloaded = call.has_saved,
                          !.lost = @ \/ stats_file.t = "not_json"]
    /\ UNCHANGED <<ret, stats_file, flashcard_set, session, current_stats,
                   cards_studied, response, console, choice,
                   selection_state, pc>>

\* a session has returned statistics: they are stored and the map is saved
RunStoreAndSave ==
    /\ call.phase = "running"
    /\ \E result \in SomeSetStats, outcome \in SaveOutcomes :
           /\ StoreAndSave(result, console.summary, outcome)
           /\ LET updated == DictSet(app_state, flashcard_set.name, result)
                  ok == save_statistics_file(stats_file, updated,
                                             outcome).result
              IN  /\ ret' = Return(ok)
                  /\ call' = [call EXCEPT
                                 !.has_saved =
                                     CASE outcome = "ok" -> TRUE
                                       [] outcome = "open_failed" -> @
                                       [] OTHER -> FALSE,
                                 !.saved = IF ok THEN updated ELSE @]
    /\ UNCHANGED <<flashcard_set, session, current_stats, cards_studied,
                   response, choice, selection_state, pc>>

\* the run ends; the next one starts from the file
RunExit ==
    /\ call.phase = "running"
    /\ call' = [call EXCEPT !.phase = "start"]
    /\ UNCHANGED <<ret, stats_file, flashcard_set, app_state,
                   current_set_stats, session, current_stats, cards_studied,
                   response, console, choice, selection_state, pc>>

NextRuns == RunCreateAppState \/ RunStoreAndSave \/ RunExit

SpecRuns == InitRuns /\ [][NextRuns]_vars

\* C37: a save that succeeds leaves a document whose only root field is
\* flashcard_sets, with the entry migrated from a legacy file unchanged in
\* it; a load of a file left by such a save takes the branch of the
\* current format and returns the map that was saved, in which the data of
\* the legacy file is the one entry "legacy_data", as first migrated
\* (unless a run has started from a file that a failed write had cut).
LegacyNeverWritten ==
    [][/\ (call.phase = "running" /\ call'.phase = "running"
              /\ ret'.value = TRUE) =>
              /\ stats_file'.t = "json"
              /\ stats_file'.doc.t = "obj"
              /\ DictKeys(stats_file'.doc.m) = {"flashcard_sets"}
              /\ (call.was_legacy /\ ~call'.lost) =>
                     /\ DictHas(app_state', "legacy_data")
                     /\ DictAt(app_state', "legacy_data")
                            = DictAt(call.first, "legacy_data")
       /\ (call.phase = "start" /\ call'.phase = "running"
              /\ call.has_saved) =>
              /\ JsonIn("correct_answers", stats_file.doc) = Return(FALSE)
              /\ app_state' = call.saved
              /\ IsDict(app_state')
              /\ (call.was_legacy /\ ~call'.lost) =>
                     /\ DictHas(app_state', "legacy_data")
                     /\ DictAt(app_state', "legacy_data")
                            = DictAt(call.first, "legacy_data")]_vars

\* a legacy file with a card was migrated, saved with the statistics of a
\* set beside it, and loaded again by the next run
LegacyNeverWrittenWitness ==
    /\ call.fn = "run_flashcard_app"
    /\ call.phase = "running"
    /\ call.was_legacy
    /\ ~call.lost
    /\ call.reloaded
    /\ call.has_saved
    /\ app_state = call.saved
    /\ DictKeys(app_state) = {"legacy_data", "python"}
    /\ Len(DictAt(app_state, "legacy_data").card_stats) > 0
    /\ DictAt(app_state, "legacy_data").total_attempts > 0
    /\ DictAt(app_state, "legacy_data") = DictAt(call.first, "legacy_data")
    /\ load_statistics_file(stats_file) = Return(app_state)

(***************************************************************************)
(* The statistics a view or a study session started now would read         *)
(***************************************************************************)
\* the places the process waits for input with statistics in memory
Waiting == {"select", "menu", "card"}

\* the statistics of the set a statistics view or a study session started
\* in this state reads: the selection menu's map, the main loop's
\* current_set_stats, the running statistics of the session
SeenStats ==
    CASE pc = "select" ->
            DictGet(selection_state, flashcard_set.name, EmptySetStats)
      [] pc = "menu" -> current_set_stats
      [] pc = "card" -> current_stats
      [] OTHER -> EmptySetStats

\* every attempt counted in old is counted in new
IncludesAttempts(new, old) ==
    /\ new.total_attempts >= old.total_attempts
    /\ new.correct_answers >= old.correct_answers
    /\ \A key \in DictKeys(old.card_stats) :
           /\ DictHas(new.card_stats, key)
           /\ DictAt(new.card_stats, key).total
                  >= DictAt(old.card_stats, key).total
           /\ DictAt(new.card_stats, key).correct
                  >= DictAt(old.card_stats, key).correct

NeverBackAtSelection ==
    pc = "select" => choice \in {"none", "stats"}

(***************************************************************************)
(* The read-only queries on statistics (src/src/core/types.py,             *)
(* src/flashcard_statistics.py)                                            *)
(***************************************************************************)
\* CardStats.accuracy and FlashcardSetStats.accuracy
CardStats_accuracy(card_stats) ==
    Accuracy(card_stats.correct, card_stats.total)

FlashcardSetStats_accuracy(set_stats) ==
    Accuracy(set_stats.correct_answers, set_stats.total_attempts)

\* the order of two accuracies, as fractions with positive denominators
AccuracyLeq(a, b) == a.num * b.den <= b.num * a.den

AccuracyEq(a, b) == a.num * b.den = b.num * a.den

\* the characters of the set names of the model
NameChars(name) ==
    CASE name = "python" -> <<"p", "y", "t", "h", "o", "n">>
      [] name = "legacy_data" ->
            <<"l", "e", "g", "a", "c", "y", "_", "d", "a", "t", "a">>
      [] name = "legacy" -> <<"l", "e", "g", "a", "c", "y">>
      [] name = "tmp_set" -> <<"t", "m", "p", "_", "s", "e", "t">>
      [] name = "tmp" -> <<"t", "m", "p">>
      [] name = "tm" -> <<"t", "m">>
      [] name = "my_tmp" -> <<"m", "y", "_", "t", "m", "p">>

\* s.startswith(prefix)
StartsWith(s, prefix) ==
    /\ Len(s) >= Len(prefix)
    /\ SubSeq(s, 1, Len(prefix)) = prefix

\* a test that forgets the temporary sets
IsCountedSet_with_tmp(set_name) ==
    NameChars(set_name) # NameChars("legacy_data")

\* the sets the overall figures count
IsCountedSet(set_name) ==
    /\ NameChars(set_name) # NameChars("legacy_data")
    /\ ~StartsWith(NameChars(set_name), NameChars("tmp"))

\* the loop of calculate_overall_accuracy from entry i on, with the sums
RECURSIVE OverallTotals(_, _, _, _)
OverallTotals(set_stats, i, total_attempts, total_correct) ==
    IF i > Len(set_stats)
    THEN [total_attempts |-> total_attempts, total_correct |-> total_correct]
    ELSE IF IsCountedSet(set_stats[i].k)
    THEN OverallTotals(set_stats, i + 1,
                       total_attempts + set_stats[i].v.total_attempts,
                       total_correct + set_stats[i].v.correct_answers)
    ELSE OverallTotals(set_stats, i + 1, total_attempts, total_correct)

calculate_overall_accuracy(set_stats) ==
    LET sums == OverallTotals(set_stats, 1, 0, 0)
    IN  <<Accuracy(sums.total_correct, sums.total_attempts),
          sums.total_attempts>>

\* l[:n]
SliceTo(l, n) ==
    IF n >= 0 THEN SubSeq(l, 1, Min(n, Len(l)))
    ELSE SubSeq(l, 1, IF Len(l) + n > 0 THEN Len(l) + n ELSE 0)

\* the (card_key, accuracy, total) tuples of the cards with attempts, in
\* the order of the map
CardDifficulties(card_stats) ==
    LET tried == SelectSeq(card_stats, LAMBDA e : e.v.total > 0)
    IN  [i \in 1..Len(tried) |->
            <<tried[i].k, CardStats_accuracy(tried[i].v), tried[i].v.total>>]

\* ascending, but x goes in front of the elements of equal accuracy
InsertByAccuracy_before_ties(sorted, x) ==
    LET n == Cardinality({i \in 1..Len(sorted) :
                             ~AccuracyLeq(x[2], sorted[i][2])})
    IN  SubSeq(sorted, 1, n) \o <<x>> \o SubSeq(sorted, n + 1, Len(sorted))

\* x goes in front of the elements whose accuracy is not greater
InsertByAccuracy_descending(sorted, x) ==
    LET n == Cardinality({i \in 1..Len(sorted) :
                             ~AccuracyLeq(sorted[i][2], x[2])})
    IN  SubSeq(sorted, 1, n) \o <<x>> \o SubSeq(sorted, n + 1, Len(sorted))

\* list.sort(key=lambda x: x[1]): ascending and stable.  x goes behind the
\* elements of the sorted list whose accuracy is not greater.
InsertByAccuracy(sorted, x) ==
    LET n == Cardinality({i \in 1..Len(sorted) :
                             AccuracyLeq(sorted[i][2], x[2])})
    IN  SubSeq(sorted, 1, n) \o <<x>> \o SubSeq(sorted, n + 1, Len(sorted))

RECURSIVE SortByAccuracy(_)
SortByAccuracy(l) ==
    IF l = <<>> THEN <<>>
    ELSE InsertByAccuracy(SortByAccuracy(SubSeq(l, 1, Len(l) - 1)),
                          l[Len(l)])

get_most_challenging_cards(set_stats, limit) ==
    SliceTo(SortByAccuracy(CardDifficulties(set_stats.card_stats)), limit)

(***************************************************************************)
(* Specification of the queries: the arguments are drawn, one step         *)
(* applies the function.                                                   *)
(***************************************************************************)
MaxLimit == 3

\* statistics of sets told apart by their counters only
CounterStats == {FlashcardSetStats(ca, ta, EmptyDict) :
                    ca \in Counts, ta \in Counts}

QueryNames == SetNames \cup {"legacy", "tmp", "tm", "my_tmp"}

\* maps of up to two sets of the names, and maps of three sets
QueryMaps(names) ==
    {m \in SeqsUpTo([k : names, v : CounterStats], 2) : IsDict(m)}
    \cup {<<[k |-> n, v |-> s],
             [k |-> "legacy_data", v |-> FlashcardSetStats(1, 2, EmptyDict)],
             [k |-> "tmp_set", v |-> FlashcardSetStats(1, 1, EmptyDict)]>> :
             n \in {"python", "tm"}, s \in CounterStats}

\* card_stats maps of up to three cards
RankKeys == CardKeys \cup {<<"c">>}

\* the tallies a card can have: correct <= total
TallyValues == {s \in CardStatsValues : s.correct <= s.total}

\* statistics with a card_stats map of up to n cards
RankedStats(n) ==
    {FlashcardSetStats(0, 0, cs) :
        cs \in {d \in SeqsUpTo([k : RankKeys, v : TallyValues], n) :
                   IsDict(d)}}

InitQueries ==
    /\ call \in
           {[fn |-> "CardStats.accuracy", done |-> FALSE, self |-> s] :
               s \in CardStatsValues}
           \cup {[fn |-> "FlashcardSetStats.accuracy", done |-> FALSE,
                   self |-> s] : s \in CounterStats}
           \cup {[fn |-> "calculate_overall_accuracy", done |-> FALSE,
                   set_stats |-> m] : m \in QueryMaps(QueryNames)}
           \cup {[fn |-> "get_most_challenging_cards", done |-> FALSE,
                   set_stats |-> s, limit |-> n] :
                    s \in RankedStats(3), n \in 0..MaxLimit}
    /\ ret = NoRet
    /\ AppIdle

CallAccuracy ==
    /\ call.fn \in {"CardStats.accuracy", "FlashcardSetStats.accuracy"}
    /\ ~call.done
    /\ ret' = Return(IF call.fn = "CardStats.accuracy"
                     THEN CardStats_accuracy(call.self)
                     ELSE FlashcardSetStats_accuracy(call.self))
    /\ call' = [call EXCEPT !.done = TRUE]
    /\ UNCHANGED appVars

CallCalculateOverallAccuracy ==
    /\ call.fn = "calculate_overall_accuracy"
    /\ ~call.done
    /\ ret' = Return(calculate_overall_accuracy(call.set_stats))
    /\ call' = [call EXCEPT !.done = TRUE]
    /\ UNCHANGED appVars

CallGetMostChallengingCards ==
    /\ call.fn = "get_most_challenging_cards"
    /\ ~call.done
    /\ ret' = Return(get_most_challenging_cards(call.set_stats, call.limit))
    /\ call' = [call EXCEPT !.done = TRUE]
    /\ UNCHANGED appVars

NextQueries ==
    \/ CallAccuracy
    \/ CallCalculateOverallAccuracy
    \/ CallGetMostChallengingCards

SpecQueries == InitQueries /\ [][NextQueries]_vars

\* the sum of the values of a function with a finite domain
RECURSIVE SumOf(_)
SumOf(f) ==
    IF DOMAIN f = {} THEN 0
    ELSE LET x == CHOOSE y \in DOMAIN f : TRUE
         IN  f[x] + SumOf([y \in DOMAIN f \ {x} |-> f[y]])

\* C14: calculate_overall_accuracy sums correct_answers and total_attempts
\* over the sets whose name is not "legacy_data" and does not start with
\* "tmp"; it returns (correct / attempts * 100, attempts), and (0.0, 0)
\* when those sets hold no attempt.
OverallAccuracyContract ==
    (call.fn = "calculate_overall_accuracy" /\ call.done) =>
        LET m == call.set_stats
            counted == {i \in 1..Len(m) :
                           /\ m[i].k # "legacy_data"
                           /\ ~StartsWith(NameChars(m[i].k),
                                          <<"t", "m", "p">>)}
            attempts == SumOf([i \in counted |-> m[i].v.total_attempts])
            correct == SumOf([i \in counted |-> m[i].v.correct_answers])
        IN  /\ ret.exc = "none"
            /\ ret.value[2] = attempts
            /\ IF attempts = 0
               THEN ret.value[1] = [num |-> 0, den |-> 1]
               ELSE AccuracyEq(ret.value[1],
                               [num |-> correct * 100, den |-> attempts])

\* a map with legacy_data, a temporary set and a counted set with attempts
OverallAccuracyWitness ==
    /\ call.fn = "calculate_overall_accuracy"
    /\ call.done
    /\ Len(call.set_stats) = 3
    /\ DictHas(call.set_stats, "python")
    /\ DictAt(call.set_stats, "python").correct_answers = 1
    /\ ret.value[2] = MaxCount
    /\ ret.value[2] < SumOf([i \in 1..3 |->
                                call.set_stats[i].v.total_attempts])

\* C16: accuracy is 0.0 when the total is 0; otherwise it is
\* correct / total * 100, which lies in [0, 100] when correct <= total.
AccuracyContract ==
    (call.fn \in {"CardStats.accuracy", "FlashcardSetStats.accuracy"}
        /\ call.done) =>
        LET correct == IF call.fn = "CardStats.accuracy"
                       THEN call.self.correct
                       ELSE call.self.correct_answers
            total == IF call.fn = "CardStats.accuracy"
                     THEN call.self.total
                     ELSE call.self.total_attempts
            a == ret.value
        IN  /\ ret.exc = "none"
            /\ a.den > 0
            /\ total = 0 => a.num = 0
            /\ total > 0 => a.num * total = correct * 100 * a.den
            /\ correct <= total => (0 <= a.num /\ a.num <= 100 * a.den)

\* the accuracy of a card answered correctly once in MaxCount attempts
AccuracyWitness ==
    /\ call.fn = "CardStats.accuracy"
    /\ call.done
    /\ call.self = CardStats(1, MaxCount)
    /\ ret.value.num * MaxCount = 100 * ret.value.den

\* what C15 says of the entries returned: at most limit entries, each the
\* (key, accuracy, total) of a card of the map with total > 0, in
\* non-decreasing order of accuracy
RankedEntries ==
    LET cs == call.set_stats.card_stats
        r == ret.value
    IN  /\ ret.exc = "none"
        /\ Len(r) <= call.limit
        /\ \A i \in 1..Len(r) :
               /\ DictHas(cs, r[i][1])
               /\ DictAt(cs, r[i][1]).total > 0
               /\ r[i][3] = DictAt(cs, r[i][1]).total
               /\ r[i][2] = CardStats_accuracy(DictAt(cs, r[i][1]))
        /\ \A i \in 1..Len(r) : \A j \in i..Len(r) :
               AccuracyLeq(r[i][2], r[j][2])

\* the cards of the map that are not in the result
LeftOut == DictKeys(call.set_stats.card_stats)
               \ {ret.value[i][1] : i \in 1..Len(ret.value)}

\* C15 as claimed: at most limit entries, each for a card with total > 0,
\* in non-decreasing order of accuracy, and every card left out has an
\* accuracy >= that of every card returned.
MostChallengingAsClaimed ==
    (call.fn = "get_most_challenging_cards" /\ call.done) =>
        /\ RankedEntries
        /\ \A key \in LeftOut : \A i \in 1..Len(ret.value) :
               AccuracyLeq(ret.value[i][2],
                           CardStats_accuracy(
                               DictAt(call.set_stats.card_stats, key)))

\* C15, amended: at most limit entries, each for a card with total > 0, in
\* non-decreasing order of accuracy, and every card with total > 0 that is
\* left out has an accuracy >= that of every card returned (a card with
\* total = 0 is left out with accuracy 0.0, whatever is returned).
MostChallengingContract ==
    (call.fn = "get_most_challenging_cards" /\ call.done) =>
        /\ RankedEntries
        /\ \A key \in LeftOut :
               DictAt(call.set_stats.card_stats, key).total > 0 =>
                   \A i \in 1..Len(ret.value) :
                       AccuracyLeq(ret.value[i][2],
                                   CardStats_accuracy(
                                       DictAt(call.set_stats.card_stats,
                                              key)))

\* two accuracies are the same number
SameAccuracy(a, b) == AccuracyLeq(a, b) /\ AccuracyLeq(b, a)

\* C36: in the result of get_most_challenging_cards, of two cards of equal
\* accuracy the one that comes first in card_stats comes first, and a card
\* with attempts that the cut at limit leaves out comes, in card_stats,
\* behind every returned card of the same accuracy.
TiesInMapOrder ==
    (call.fn = "get_most_challenging_cards" /\ call.done) =>
        LET cs == call.set_stats.card_stats
            r == ret.value
        IN  /\ \A i \in 1..Len(r) : \A j \in (i + 1)..Len(r) :
                   SameAccuracy(r[i][2], r[j][2]) =>
                       DictIndex(cs, r[i][1]) < DictIndex(cs, r[j][1])
            /\ \A key \in LeftOut : \A i \in 1..Len(r) :
                   (/\ DictAt(cs, key).total > 0
                    /\ SameAccuracy(CardStats_accuracy(DictAt(cs, key)),
                                    r[i][2])) =>
                       DictIndex(cs, r[i][1]) < DictIndex(cs, key)

\* three cards of the same accuracy and different tallies: the first two
\* of the map are returned in the order of the map, the third is cut
TiesInMapOrderWitness ==
    /\ call.fn = "get_most_challenging_cards"
    /\ call.done
    /\ call.limit = 2
    /\ Len(call.set_stats.card_stats) = 3
    /\ \A i \in 1..3 : call.set_stats.card_stats[i].v.total > 0
    /\ call.set_stats.card_stats[1].v # call.set_stats.card_stats[2].v
    /\ \A i \in 1..3 : \A j \in 1..3 :
           SameAccuracy(CardStats_accuracy(call.set_stats.card_stats[i].v),
                        CardStats_accuracy(call.set_stats.card_stats[j].v))
    /\ Len(ret.value) = 2
    /\ ret.value[1][1] = call.set_stats.card_stats[1].k
    /\ ret.value[2][1] = call.set_stats.card_stats[2].k

\* one card is returned of three: a card with attempts and a card without
\* attempts are left out
MostChallengingWitness ==
    /\ call.fn = "get_most_challenging_cards"
    /\ call.done
    /\ call.limit = 1
    /\ Len(ret.value) = 1
    /\ Cardinality(LeftOut) = 2
    /\ \E key \in LeftOut :
           DictAt(call.set_stats.card_stats, key).total = 0
    /\ \E key \in LeftOut :
           /\ DictAt(call.set_stats.card_stats, key).total > 0
           /\ ~AccuracyLeq(CardStats_accuracy(
                               DictAt(call.set_stats.card_stats, key)),
                           ret.value[1][2])

(***************************************************************************)
(* The dispatcher of src/src/core/session.py and the confirmation menu of  *)
(* src/src/ui/interface.py                                                 *)
(***************************************************************************)
\* Key presses in the confirmation menu.  _get_arrow_key_input returns the
\* arrow keys, Enter, Ctrl+C ("quit") and the lower-case character of any
\* other key.
ResetKeys ==
    {<<>>, <<"enter">>, <<"n">>, <<"y">>, <<"quit">>, <<"x">>,
     <<"down", "enter">>, <<"up", "enter">>, <<"down", "n">>, <<"x", "y">>,
     <<"quit", "enter">>, <<"y", "n">>, <<"n", "y">>,
     <<"down", "down", "enter">>, <<"down", "up", "y">>,
     <<"up", "x", "enter">>, <<"up", "up", "up", "enter">>}

\* the responses of one session: yes/no answers, ended by skip or quit
\* before the last card or by the answer to the last card
ResponseRuns(cards) ==
    {answers \o <<end>> :
        answers \in UNION {[1..m -> {"y", "n"}] : m \in 0..(Len(cards) - 1)},
        end \in {"s", "q"}}
    \cup [1..Len(cards) -> {"y", "n"}]

\* the while loop of run_study_session on the responses read
RECURSIVE StudyLoop(_, _, _, _)
StudyLoop(s, stats, studied, responses) ==
    IF is_complete(s) \/ responses = <<>>
    THEN [stats |-> stats, studied |-> studied]
    ELSE LET step == StudyStep(s, stats, studied, Head(responses))
         IN  IF Head(responses) \in {"s", "q"}
             THEN [stats |-> step.stats, studied |-> step.studied]
             ELSE StudyLoop(step.session, step.stats, step.studied,
                            Tail(responses))

\* run_study_session: (current_stats, cards_studied)
run_study_session(cards, set_stats, randomize, responses) ==
    IF cards = <<>> THEN [stats |-> set_stats, studied |-> 0]
    ELSE StudyLoop(create_study_session(cards, randomize), set_stats, 0,
                   responses)

\* _show_arrow_key_menu with direct keys on the keys pressed: the value of
\* the option chosen.  options are (label, value) pairs; selected counts
\* from 0.  When the keys end the user interrupts the menu.
RECURSIVE show_arrow_key_menu(_, _, _)
show_arrow_key_menu(options, selected, keys) ==
    IF keys = <<>> THEN "quit"
    ELSE LET key == Head(keys)
         IN  CASE key = "up" ->
                     show_arrow_key_menu(options,
                         (selected - 1) % Len(options), Tail(keys))
               [] key = "down" ->
                     show_arrow_key_menu(options,
                         (selected + 1) % Len(options), Tail(keys))
               [] key = "enter" -> options[selected + 1][2]
               [] OTHER ->
                     IF \E i \in 1..Len(options) : options[i][2] = key
                     THEN key
                     ELSE show_arrow_key_menu(options, selected, Tail(keys))

\* a confirmation that anything but an explicit no passes
confirm_reset_stats_unless_no(keys) ==
    show_arrow_key_menu(<<<<"No, keep my stats", "n">>,
                          <<"Yes, reset stats", "y">>>>, 0, keys) # "n"

confirm_reset_stats(keys) ==
    show_arrow_key_menu(<<<<"No, keep my stats", "n">>,
                          <<"Yes, reset stats", "y">>>>, 0, keys) = "y"

\* the first element of the tuple handle_menu_choice returns: statistics,
\* the exit signal or None
StatsResult(stats) == [kind |-> "stats", stats |-> stats]
ExitResult == [kind |-> "exit"]
NoResult == [kind |-> "none"]

\* the tokens of display_menu, the quit token of src/study_session.py and a
\* token of no menu
SessionTokens == {"1", "2", "b", "s", "r", "q", "4", "x"}

\* views that hand back the statistics they have shown
session_handle_menu_choice_returning_shown(token, cards, set_stats, responses, keys) ==
    CASE token \in {"1", "2"} ->
            <<StatsResult(run_study_session(cards, set_stats, token = "2",
                                            responses).stats), TRUE>>
      [] token \in {"b", "s"} -> <<StatsResult(set_stats), FALSE>>
      [] token = "r" ->
            IF confirm_reset_stats(keys)
            THEN <<StatsResult(EmptySetStats), FALSE>>
            ELSE <<NoResult, FALSE>>
      [] token = "q" -> <<ExitResult, FALSE>>
      [] OTHER -> <<NoResult, FALSE>>

\* a dispatcher that leaves on every token it does not know
session_handle_menu_choice_leaving_on_unknown(token, cards, set_stats, responses, keys) ==
    CASE token \in {"1", "2"} ->
            <<StatsResult(run_study_session(cards, set_stats, token = "2",
                                            responses).stats), TRUE>>
      [] token \in {"b", "s"} -> <<NoResult, FALSE>>
      [] token = "r" ->
            IF confirm_reset_stats(keys)
            THEN <<StatsResult(EmptySetStats), FALSE>>
            ELSE <<NoResult, FALSE>>
      [] token = "q" -> <<ExitResult, FALSE>>
      [] OTHER -> <<ExitResult, FALSE>>

\* a reset that clears the attempts and the cards only
session_handle_menu_choice_keeping_correct(token, cards, set_stats, responses, keys) ==
    CASE token \in {"1", "2"} ->
            <<StatsResult(run_study_session(cards, set_stats, token = "2",
                                            responses).stats), TRUE>>
      [] token \in {"b", "s"} -> <<NoResult, FALSE>>
      [] token = "r" ->
            IF confirm_reset_stats(keys)
            THEN <<StatsResult(FlashcardSetStats(set_stats.correct_answers,
                                                 0, EmptyDict)), FALSE>>
            ELSE <<NoResult, FALSE>>
      [] token = "q" -> <<ExitResult, FALSE>>
      [] OTHER -> <<NoResult, FALSE>>

\* handle_menu_choice of src/src/core/session.py: (result,
\* session_just_completed).  cards is the list prepare_cards gives, responses
\* and keys are what the user enters in the session and in the confirmation.
session_handle_menu_choice(token, cards, set_stats, responses, keys) ==
    CASE token \in {"1", "2"} ->
            <<StatsResult(run_study_session(cards, set_stats, token = "2",
                                            responses).stats), TRUE>>
      [] token \in {"b", "s"} -> <<NoResult, FALSE>>
      [] token = "r" ->
            IF confirm_reset_stats(keys)
            THEN <<StatsResult(EmptySetStats), FALSE>>
            ELSE <<NoResult, FALSE>>
      [] token = "q" -> <<ExitResult, FALSE>>
      [] OTHER -> <<NoResult, FALSE>>

(***************************************************************************)
(* Specification of the dispatcher: every step is one call of             *)
(* handle_menu_choice on the statistics the calls so far have left.  The   *)
(* statistics a call returns replace them (the tuple is unpacked as in     *)
(* src/tests/test_functional.py); no call follows the exit signal.         *)
(***************************************************************************)
\* sets of no card, one card, two cards with different keys and two cards
\* with one key
MenuCardLists == {<<>>, <<Card1>>, <<Card1, Card3>>, <<Card1, Card2>>}

InitMenu ==
    /\ call = [fn |-> "handle_menu_choice", token |-> "none",
               responses |-> <<>>, keys |-> <<>>]
    /\ ret = NoRet
    /\ stats_file = [t |-> "missing"]
    /\ flashcard_set \in {[cards |-> l, name |-> "python"] :
                              l \in MenuCardLists}
    /\ app_state = EmptyDict
    /\ current_set_stats = EmptySetStats
    /\ session = StudySession(<<>>, 0, 0, FALSE)
    /\ current_stats = EmptySetStats
    /\ cards_studied = 0
    /\ response = "none"
    /\ console = [summary |-> None, warned |-> FALSE]
    /\ choice = "none"
    /\ selection_state = None
    /\ pc = "menu"

\* one call: result, session_just_completed = handle_menu_choice(...)
Dispatch(token, cards, responses, keys) ==
    LET result == session_handle_menu_choice(token, cards, current_set_stats,
                                             responses, keys)
    IN  /\ call' = [fn |-> "handle_menu_choice", token |-> token,
                    responses |-> responses, keys |-> keys]
        /\ ret' = Return(result)
        /\ choice' = token
        /\ current_set_stats' = IF result[1].kind = "stats"
                                THEN result[1].stats
                                ELSE current_set_stats
        /\ pc' = IF result[1].kind = "exit" THEN "exited" ELSE "menu"
        /\ UNCHANGED <<stats_file, flashcard_set, app_state, session,
                       current_stats, cards_studied, response, console,
                       selection_state>>

MenuStudy ==
    /\ pc = "menu"
    /\ current_set_stats.total_attempts + Len(flashcard_set.cards)
           <= MaxAttempts
    /\ \E token \in {"1", "2"} :
           \E cards \in prepare_cards(flashcard_set, token = "2") :
               \E responses \in ResponseRuns(cards) :
                   Dispatch(token, cards, responses, <<>>)

MenuReset ==
    /\ pc = "menu"
    /\ \E keys \in ResetKeys :
           Dispatch("r", flashcard_set.cards, <<>>, keys)

MenuOther ==
    /\ pc = "menu"
    /\ \E token \in SessionTokens \ {"1", "2", "r"} :
           Dispatch(token, flashcard_set.cards, <<>>, <<>>)

NextMenu == MenuStudy \/ MenuReset \/ MenuOther

SpecMenu == InitMenu /\ [][NextMenu]_vars

\* C17: in every state reached from the empty FlashcardSetStats by
\* update_set_stats calls and confirmed resets, correct_answers <=
\* total_attempts and 0 <= correct <= total for every card key.
CountersConsistent ==
    /\ 0 <= current_set_stats.correct_answers
    /\ current_set_stats.correct_answers <= current_set_stats.total_attempts
    /\ \A key \in DictKeys(current_set_stats.card_stats) :
           /\ 0 <= DictAt(current_set_stats.card_stats, key).correct
           /\ DictAt(current_set_stats.card_stats, key).correct
                  <= DictAt(current_set_stats.card_stats, key).total

\* statistics of two keys with right and wrong answers, all of them
\* recorded by the session that has just ended
CountersConsistentWitness ==
    /\ pc = "menu"
    /\ call.token \in {"1", "2"}
    /\ Len(current_set_stats.card_stats) = 2
    /\ current_set_stats.correct_answers > 0
    /\ current_set_stats.correct_answers < current_set_stats.total_attempts
    /\ current_set_stats.total_attempts = Len(call.responses)

\* C34: for statistics started empty or reset and changed by
\* update_set_stats only, total_attempts is the sum of total over the
\* card_stats entries and correct_answers the sum of correct, also when
\* cards share a key.
CountersAreSums ==
    LET entries == current_set_stats.card_stats
    IN  /\ current_set_stats.total_attempts
               = SumOf([i \in 1..Len(entries) |-> entries[i].v.total])
        /\ current_set_stats.correct_answers
               = SumOf([i \in 1..Len(entries) |-> entries[i].v.correct])

\* two cards with one key were answered, one of them correctly: one entry
\* holds both attempts
CountersAreSumsWitness ==
    /\ pc = "menu"
    /\ flashcard_set.cards = <<Card1, Card2>>
    /\ call.token \in {"1", "2"}
    /\ Len(current_set_stats.card_stats) = 1
    /\ current_set_stats.card_stats[1].v = CardStats(1, 2)
    /\ current_set_stats.total_attempts = 2

\* C20: the reset command returns a fresh empty FlashcardSetStats only when
\* the user confirms (the first deciding key is y, or Enter with the
\* highlight moved to "Yes"); otherwise handle_menu_choice returns no
\* statistics and the statistics of the set stay as they were.
ResetNeedsConfirmation ==
    [][(pc = "menu" /\ call'.token = "r") =>
          LET keys == call'.keys
              Decides(i) == keys[i] \in {"enter", "y", "n"}
              first == {i \in 1..Len(keys) :
                           Decides(i) /\ \A j \in 1..(i - 1) : ~Decides(j)}
              moves(i) == Cardinality({j \in 1..(i - 1) :
                                          keys[j] \in {"up", "down"}})
              confirmed == \E i \in first :
                               \/ keys[i] = "y"
                               \/ keys[i] = "enter" /\ moves(i) % 2 = 1
          IN  IF confirmed
              THEN /\ ret'.value = <<StatsResult(EmptySetStats), FALSE>>
                   /\ current_set_stats' = EmptySetStats
              ELSE /\ ret'.value = <<NoResult, FALSE>>
                   /\ current_set_stats' = current_set_stats]_vars

\* a reset of statistics with attempts was declined with a bare Enter
ResetNeedsConfirmationWitness ==
    /\ pc = "menu"
    /\ call.token = "r"
    /\ call.keys = <<"enter">>
    /\ ret.value = <<NoResult, FALSE>>
    /\ current_set_stats.total_attempts > 0

\* C21: browse-cards and view-statistics are read-only: handle_menu_choice
\* returns (None, False) for them, and neither the statistics of the set nor
\* the statistics file changes.
ViewsAreReadOnly ==
    [][(pc = "menu" /\ call'.token \in {"b", "s"}) =>
          /\ ret' = Return(<<NoResult, FALSE>>)
          /\ current_set_stats' = current_set_stats
          /\ stats_file' = stats_file
          /\ pc' = "menu"]_vars

\* the statistics view was called on statistics with attempts
ViewsAreReadOnlyWitness ==
    /\ pc = "menu"
    /\ call.token = "s"
    /\ ret = Return(<<NoResult, FALSE>>)
    /\ current_set_stats.total_attempts > 1
    /\ Len(current_set_stats.card_stats) > 0

\* C22: handle_menu_choice returns ("exit", False) for the quit command and
\* for no other command; a command it does not know returns (None, False)
\* and changes nothing.
ExitOnlyOnQuit ==
    [][pc = "menu" =>
          /\ (call'.token = "q") <=> (ret'.value[1] = ExitResult)
          /\ call'.token = "q" => ret' = Return(<<ExitResult, FALSE>>)
          /\ call'.token \notin {"1", "2", "b", "s", "r", "q"} =>
                 /\ ret' = Return(<<NoResult, FALSE>>)
                 /\ current_set_stats' = current_set_stats
                 /\ stats_file' = stats_file
                 /\ pc' = "menu"]_vars

\* the quit command has returned the exit signal on statistics with attempts
ExitOnlyOnQuitWitness ==
    /\ pc = "exited"
    /\ call.token = "q"
    /\ ret = Return(<<ExitResult, FALSE>>)
    /\ current_set_stats.total_attempts > 0

(***************************************************************************)
(* Repeated updates, and update_set_stats on objects: the card_stats map   *)
(* of a FlashcardSetStats is a dict object, which the statistics hold by   *)
(* reference.  heap is the sequence of the dict objects allocated so far,  *)
(* a reference is an index of it.                                          *)
(***************************************************************************)
MaxRepeat == 3

RECURSIVE update_set_stats_times(_, _, _, _)
update_set_stats_times(set_stats, card, is_correct, n) ==
    IF n = 0 THEN set_stats
    ELSE update_set_stats(
             update_set_stats_times(set_stats, card, is_correct, n - 1),
             card, is_correct)

\* an update that writes into the dict of its argument
update_set_stats_heap_in_place(heap, set_stats, card, is_correct) ==
    LET card_key == CardKey(card)
        old == heap[set_stats.card_stats]
        new_card_stats == update_card_stats(
                              DictGet(old, card_key, EmptyCardStats),
                              is_correct)
    IN  [heap |-> [heap EXCEPT ![set_stats.card_stats] =
                      DictSet(old, card_key, new_card_stats)],
         value |-> FlashcardSetStats(
                       set_stats.correct_answers + BoolToInt(is_correct),
                       set_stats.total_attempts + 1,
                       set_stats.card_stats)]

\* update_set_stats: dict(set_stats.card_stats) allocates a new dict with
\* the entries of the old one, the assignment writes into the new dict
update_set_stats_heap(heap, set_stats, card, is_correct) ==
    LET card_key == CardKey(card)
        old == heap[set_stats.card_stats]
        new_card_stats == update_card_stats(
                              DictGet(old, card_key, EmptyCardStats),
                              is_correct)
        new_card_stats_dict == Len(heap) + 1
    IN  [heap |-> Append(heap, DictSet(old, card_key, new_card_stats)),
         value |-> FlashcardSetStats(
                       set_stats.correct_answers + BoolToInt(is_correct),
                       set_stats.total_attempts + 1,
                       new_card_stats_dict)]

\* the statistics with the card_stats map in place of the reference
Deref(heap, set_stats) ==
    [set_stats EXCEPT !.card_stats = heap[set_stats.card_stats]]

\* statistics without attempts and with attempts, of every card_stats map
UpdateInputs ==
    {FlashcardSetStats(p[1], p[2], cs) :
        p \in {<<0, 0>>, <<1, MaxCount>>}, cs \in CardStatsDicts}

InitUpdates ==
    /\ call \in
           {[fn |-> "update_set_stats_times", done |-> FALSE,
             set_stats |-> s, card |-> c, is_correct |-> b, n |-> n] :
               s \in UpdateInputs, c \in Cards, b \in BOOLEAN,
               n \in 0..MaxRepeat}
           \cup {[fn |-> "update_set_stats_heap", done |-> FALSE,
                   heap |-> <<s.card_stats>>,
                   set_stats |-> [s EXCEPT !.card_stats = 1],
                   card |-> c, is_correct |-> b] :
                    s \in UpdateInputs, c \in Cards, b \in BOOLEAN}
           \cup {[fn |-> "update_set_stats_pair", done |-> FALSE,
                   set_stats |-> s, card |-> c[1], is_correct |-> b[1],
                   other |-> c[2], other_is_correct |-> b[2]] :
                    s \in UpdateInputs, c \in Cards \X Cards,
                    b \in BOOLEAN \X BOOLEAN}
    /\ ret = NoRet
    /\ AppIdle

CallUpdateSetStatsTimes ==
    /\ call.fn = "update_set_stats_times"
    /\ ~call.done
    /\ ret' = Return(update_set_stats_times(call.set_stats, call.card,
                                            call.is_correct, call.n))
    /\ call' = [call EXCEPT !.done = TRUE]
    /\ UNCHANGED appVars

CallUpdateSetStatsHeap ==
    /\ call.fn = "update_set_stats_heap"
    /\ ~call.done
    /\ LET r == update_set_stats_heap(call.heap, call.set_stats, call.card,
                                      call.is_correct)
       IN  ret' = [exc |-> "none", value |-> r.value, heap |-> r.heap]
    /\ call' = [call EXCEPT !.done = TRUE]
    /\ UNCHANGED appVars

\* update_set_stats for one card, then for another on its result
CallUpdateSetStatsPair ==
    /\ call.fn = "update_set_stats_pair"
    /\ ~call.done
    /\ ret' = Return(update_set_stats(
                         update_set_stats(call.set_stats, call.card,
                                          call.is_correct),
                         call.other, call.other_is_correct))
    /\ call' = [call EXCEPT !.done = TRUE]
    /\ UNCHANGED appVars

NextUpdates ==
    \/ CallUpdateSetStatsTimes
    \/ CallUpdateSetStatsHeap
    \/ CallUpdateSetStatsPair

SpecUpdates == InitUpdates /\ [][NextUpdates]_vars

\* the entry of the call's card in the statistics returned
RepeatedEntry ==
    DictGet(ret.value.card_stats, CardKey(call.card), None)

\* C18 as claimed: for all FlashcardSetStats, n updates with the same card
\* and is_correct = True give the card an entry with correct = total = n.
RepeatedCorrectAsClaimed ==
    (call.fn = "update_set_stats_times" /\ call.done /\ call.is_correct)
        => RepeatedEntry = CardStats(call.n, call.n)

\* C18, amended: for every FlashcardSetStats that holds no attempt of the
\* card's key (no entry, or an entry with correct = total = 0) and every
\* n >= 1, n updates with the same card and is_correct = True give the
\* card an entry with correct = total = n.
RepeatedCorrectContract ==
    (/\ call.fn = "update_set_stats_times"
     /\ call.done
     /\ call.is_correct
     /\ call.n >= 1
     /\ DictGet(call.set_stats.card_stats, CardKey(call.card),
                EmptyCardStats) = EmptyCardStats)
        => RepeatedEntry = CardStats(call.n, call.n)

\* MaxRepeat correct answers to a card without an entry, in statistics
\* that hold attempts of another card
RepeatedCorrectWitness ==
    /\ call.fn = "update_set_stats_times"
    /\ call.done
    /\ call.is_correct
    /\ call.n = MaxRepeat
    /\ ~DictHas(call.set_stats.card_stats, CardKey(call.card))
    /\ Len(call.set_stats.card_stats) = 1
    /\ call.set_stats.card_stats[1].v.total > 0
    /\ RepeatedEntry = CardStats(MaxRepeat, MaxRepeat)

\* C19: update_set_stats leaves its argument as it was, counters and
\* card_stats map with every entry, and returns statistics with a map of
\* their own, which holds the updated entries.
InputNotModified ==
    [][(call.fn = "update_set_stats_heap" /\ ~call.done /\ call'.done)
          => /\ call'.set_stats = call.set_stats
             /\ ret'.heap[call.set_stats.card_stats]
                    = call.heap[call.set_stats.card_stats]
             /\ ret'.value.card_stats # call.set_stats.card_stats
             /\ Deref(ret'.heap, ret'.value)
                    = update_set_stats(Deref(call.heap, call.set_stats),
                                       call.card, call.is_correct)]_vars

\* an update of a card that had an entry: the map of the argument still
\* holds the old entry, the map of the result the new one
InputNotModifiedWitness ==
    /\ call.fn = "update_set_stats_heap"
    /\ call.done
    /\ DictHas(call.heap[call.set_stats.card_stats], CardKey(call.card))
    /\ DictAt(ret.heap[call.set_stats.card_stats], CardKey(call.card)).total
           = MaxCount
    /\ DictAt(ret.heap[ret.value.card_stats], CardKey(call.card)).total
           = MaxCount + 1

\* the questions p and q agree on their first 50 characters
SharePrefix(p, q) ==
    \A i \in 1..50 :
        /\ (i <= Len(p)) <=> (i <= Len(q))
        /\ i <= Len(p) => p[i] = q[i]

\* the entry the statistics hold under a key, empty when there is none
EntryOf(set_stats, key) ==
    IF DictHas(set_stats.card_stats, key)
    THEN DictAt(set_stats.card_stats, key)
    ELSE [correct |-> 0, total |-> 0]

\* C25: two cards whose questions share their first 50 characters are one
\* card for the statistics: updates for either go to one entry, keyed by
\* that prefix; cards whose prefixes differ have an entry each.
PrefixIsTheCard ==
    (call.fn = "update_set_stats_pair" /\ call.done) =>
        LET old == call.set_stats
            new == ret.value
            p == call.card.question
            q == call.other.question
            pkey == SubSeq(p, 1, IF Len(p) < 50 THEN Len(p) ELSE 50)
            qkey == SubSeq(q, 1, IF Len(q) < 50 THEN Len(q) ELSE 50)
            inc == IF call.is_correct THEN 1 ELSE 0
            other_inc == IF call.other_is_correct THEN 1 ELSE 0
        IN  /\ IsDict(new.card_stats)
            /\ DictKeys(new.card_stats)
                   = DictKeys(old.card_stats) \cup {pkey, qkey}
            /\ IF SharePrefix(p, q)
               THEN /\ pkey = qkey
                    /\ EntryOf(new, pkey).total = EntryOf(old, pkey).total + 2
                    /\ EntryOf(new, pkey).correct
                           = EntryOf(old, pkey).correct + inc + other_inc
               ELSE /\ pkey # qkey
                    /\ EntryOf(new, pkey).total = EntryOf(old, pkey).total + 1
                    /\ EntryOf(new, pkey).correct
                           = EntryOf(old, pkey).correct + inc
                    /\ EntryOf(new, qkey).total = EntryOf(old, qkey).total + 1
                    /\ EntryOf(new, qkey).correct
                           = EntryOf(old, qkey).correct + other_inc

\* two different cards with one prefix were answered, and their entry holds
\* both attempts
PrefixIsTheCardWitness ==
    /\ call.fn = "update_set_stats_pair"
    /\ call.done
    /\ call.card # call.other
    /\ SharePrefix(call.card.question, call.other.question)
    /\ call.is_correct
    /\ ~call.other_is_correct
    /\ EntryOf(ret.value, CardKey(call.card)).total
           = EntryOf(call.set_stats, CardKey(call.card)).total + 2

\* the integer field of a JSON object, 0 when the object has no such field
IntField(obj, key) == IF DictHas(obj.m, key) THEN DictAt(obj.m, key).n ELSE 0

\* the card keys of a JSON object's card_stats field
CardKeysOf(obj) ==
    IF DictHas(obj.m, "card_stats") /\ DictAt(obj.m, "card_stats").t = "obj"
    THEN DictKeys(DictAt(obj.m, "card_stats").m)
    ELSE {}

\* stats holds the counters and the card keys of the JSON object
DecodedFrom(stats, obj) ==
    /\ obj.t = "obj"
    /\ stats.correct_answers = IntField(obj, "correct_answers")
    /\ stats.total_attempts = IntField(obj, "total_attempts")
    /\ DictKeys(stats.card_stats) = CardKeysOf(obj)

\* C26: a document is migrated as legacy exactly when its root has
\* correct_answers and no flashcard_sets; a document with flashcard_sets is
\* decoded as the current schema, with the entries listed under
\* flashcard_sets and no other.  The formula speaks of the loads that
\* return a map.
LegacyDetection ==
    (call.fn = "load_statistics_file" /\ call.done
        /\ stats_file.t = "json" /\ stats_file.doc.t = "obj"
        /\ ret.exc = "none") =>
        LET root == stats_file.doc
            legacy == /\ DictHas(root.m, "correct_answers")
                      /\ ~DictHas(root.m, "flashcard_sets")
            has_sets == DictHas(root.m, "flashcard_sets")
            listed == IF has_sets /\ DictAt(root.m, "flashcard_sets").t = "obj"
                      THEN DictAt(root.m, "flashcard_sets").m
                      ELSE <<>>
        IN  /\ IsDict(ret.value)
            /\ legacy =>
                   /\ DictKeys(ret.value) = {"legacy_data"}
                   /\ DecodedFrom(DictAt(ret.value, "legacy_data"), root)
            /\ ~legacy =>
                   /\ has_sets => DictAt(root.m, "flashcard_sets").t = "obj"
                   /\ DictKeys(ret.value) = DictKeys(listed)
                   /\ \A name \in DictKeys(listed) :
                          DecodedFrom(DictAt(ret.value, name),
                                      DictAt(listed, name))

\* a document with a root correct_answers and a set with attempts under
\* flashcard_sets was loaded as the current schema
LegacyDetectionWitness ==
    /\ call.fn = "load_statistics_file"
    /\ call.done
    /\ stats_file.t = "json"
    /\ stats_file.doc.t = "obj"
    /\ DictHas(stats_file.doc.m, "correct_answers")
    /\ DictHas(stats_file.doc.m, "flashcard_sets")
    /\ ret.exc = "none"
    /\ DictKeys(ret.value) = {"python"}
    /\ DictAt(ret.value, "python").total_attempts > 0
    /\ Len(DictAt(ret.value, "python").card_stats) = 2

(***************************************************************************)
(* The class-based application (src/flashcards.py).  FlashcardApp keeps     *)
(* the statistics of all sets in self.set_stats (app_state) and changes    *)
(* them in place; cards_to_study and the loop variable i of                *)
(* study_flashcards are session.cards and cards_studied, and               *)
(* session.current_index is the index of the card shown.                   *)
(***************************************************************************)
\* self.set_stats after load_statistics, or the exception it raises
FlashcardApp_load_statistics(file) ==
    CASE file.t = "missing" -> Return(EmptyDict)
      [] file.t = "unreadable" -> Raise("PermissionError")
      [] file.t = "not_utf8" -> Raise("UnicodeDecodeError")
      [] file.t = "not_json" -> Return(EmptyDict)
      [] file.t = "json" ->
            LET stats == file.doc
                has_correct == JsonIn("correct_answers", stats)
                has_sets == JsonIn("flashcard_sets", stats)
            IN  IF has_correct.exc # "none" THEN has_correct
                ELSE IF has_correct.value /\ ~has_sets.value
                THEN LoadLegacy(stats)
                ELSE LoadCurrent(stats)

\* self.set_stats after get_current_set_stats: an empty entry is added for
\* a set that has none
FlashcardApp_get_current_set_stats(set_stats, name) ==
    IF DictHas(set_stats, name) THEN set_stats
    ELSE DictSet(set_stats, name, EmptySetStats)

\* a response handler that records answers only
FlashcardApp_handle_user_response_answers_only(set_stats, name, r, card) ==
    LET with_set == FlashcardApp_get_current_set_stats(set_stats, name)
        current_stats_ == DictAt(with_set, name)
        card_key == Prefix(card.question, 50)
        entry == DictGet(current_stats_.card_stats, card_key, EmptyCardStats)
        inc == BoolToInt(r = "y")
    IN  IF r \in {"s", "q"} THEN with_set
        ELSE DictSet(with_set, name,
                 FlashcardSetStats(
                     current_stats_.correct_answers + inc,
                     current_stats_.total_attempts + 1,
                     DictSet(current_stats_.card_stats, card_key,
                             CardStats(entry.correct + inc, entry.total + 1))))

\* self.set_stats after the statistics part of _handle_user_response
FlashcardApp_handle_user_response(set_stats, name, r, card) ==
    LET with_set == FlashcardApp_get_current_set_stats(set_stats, name)
        current_stats_ == DictAt(with_set, name)
        card_key == Prefix(card.question, 50)
        entry == DictGet(current_stats_.card_stats, card_key, EmptyCardStats)
        inc == BoolToInt(r = "y")
    IN  DictSet(with_set, name,
            FlashcardSetStats(
                current_stats_.correct_answers + inc,
                current_stats_.total_attempts + 1,
                DictSet(current_stats_.card_stats, card_key,
                        CardStats(entry.correct + inc, entry.total + 1))))

\* save_statistics: the file after the call and whether the warning is
\* printed
FlashcardApp_save_statistics(file, set_stats, outcome) ==
    CASE outcome = "ok" ->
            [file |-> JsonFile(StatsDataToJson(set_stats)), warned |-> FALSE]
      [] outcome = "open_failed" -> [file |-> file, warned |-> TRUE]
      [] outcome = "write_failed" ->
            [file |-> [t |-> "not_json"], warned |-> TRUE]

\* _show_session_summary: self.set_stats after it and the summary printed,
\* None when nothing is printed
FlashcardApp_show_session_summary(set_stats, name, studied) ==
    LET with_set == FlashcardApp_get_current_set_stats(set_stats, name)
        current_stats_ == DictAt(with_set, name)
    IN  [set_stats |-> with_set,
         summary |->
             IF current_stats_.total_attempts > 0
             THEN [cards_studied |-> studied,
                   accuracy |-> Accuracy(current_stats_.correct_answers,
                                         current_stats_.total_attempts)]
             ELSE None]

(***************************************************************************)
(* Specification of the class-based application: FlashcardApp(file).run()  *)
(***************************************************************************)
\* choices=["1", "2", "3", "4"]
RunTokens == {"1", "2", "3", "4"}

InitApp ==
    /\ call = NoCall
    /\ ret = NoRet
    /\ stats_file \in AppFiles
    /\ flashcard_set \in {[cards |-> l, name |-> "python"] : l \in AppCardLists}
    /\ app_state = EmptyDict
    /\ current_set_stats = EmptySetStats
    /\ session = StudySession(<<>>, 0, 0, FALSE)
    /\ current_stats = EmptySetStats
    /\ cards_studied = 0
    /\ response = "none"
    /\ console = [summary |-> None, warned |-> FALSE]
    /\ choice = "none"
    /\ selection_state = None
    /\ pc = "start"

\* what no action of the class-based application changes
AppFrame == UNCHANGED <<call, ret, flashcard_set, current_set_stats,
                        current_stats, selection_state>>

\* FlashcardApp.__init__ loads the statistics; run() loads the cards and
\* shows the menu.  An exception of the load ends the process.
AppConstruct ==
    /\ pc = "start"
    /\ LET loaded == FlashcardApp_load_statistics(stats_file)
       IN  IF loaded.exc # "none"
           THEN pc' = "crashed" /\ UNCHANGED app_state
           ELSE pc' = "menu" /\ app_state' = loaded.value
    /\ UNCHANGED <<stats_file, session, cards_studied, response, console,
                   choice>>
    /\ AppFrame

\* study_flashcards on no cards: the message and the return
AppStudyNoCards ==
    /\ pc = "menu"
    /\ flashcard_set.cards = <<>>
    /\ \E token \in {"1", "2"} : choice' = token
    /\ UNCHANGED <<stats_file, app_state, session, cards_studied, response,
                   console, pc>>
    /\ AppFrame

\* study_flashcards up to the response prompt of the first card
AppStartStudy ==
    /\ pc = "menu"
    /\ flashcard_set.cards # <<>>
    /\ DictGet(app_state, flashcard_set.name, EmptySetStats).total_attempts
           + Len(flashcard_set.cards) <= MaxAttempts
    /\ \E token \in {"1", "2"} :
           /\ choice' = token
           /\ \E cards \in prepare_cards(flashcard_set, token = "2") :
                  session' = StudySession(cards, 0, 0, token = "2")
    /\ cards_studied' = 1
    /\ response' = "none"
    /\ console' = [console EXCEPT !.summary = None]
    /\ pc' = "card"
    /\ UNCHANGED <<stats_file, app_state>>
    /\ AppFrame

\* the response is read and _handle_user_response records and saves it
AppHandleResponse ==
    /\ pc = "card"
    /\ \E r \in Responses, outcome \in SaveOutcomes :
           LET recorded == FlashcardApp_handle_user_response(
                               app_state, flashcard_set.name, r,
                               session.cards[session.current_index + 1])
               saved == FlashcardApp_save_statistics(stats_file, recorded,
                                                     outcome)
           IN  /\ response' = r
               /\ app_state' = recorded
               /\ stats_file' = saved.file
               /\ console' = [console EXCEPT
                                  !.warned = console.warned \/ saved.warned]
    /\ pc' = "handled"
    /\ UNCHANGED <<session, cards_studied, choice>>
    /\ AppFrame

\* after a yes/no response to a card that is not the last: the next card
AppNextCard ==
    /\ pc = "handled"
    /\ response \in {"y", "n"}
    /\ cards_studied < Len(session.cards)
    /\ session' = [session EXCEPT !.current_index = session.current_index + 1]
    /\ cards_studied' = cards_studied + 1
    /\ pc' = "card"
    /\ UNCHANGED <<stats_file, app_state, response, console, choice>>
    /\ AppFrame

\* the loop is left: quit returns at once, skip and the answer to the last
\* card go to the summary
AppLeaveStudy ==
    /\ pc = "handled"
    /\ response \in {"s", "q"} \/ cards_studied = Len(session.cards)
    /\ IF response = "q"
       THEN UNCHANGED <<app_state, console>>
       ELSE LET shown == FlashcardApp_show_session_summary(
                             app_state, flashcard_set.name, cards_studied)
            IN  /\ app_state' = shown.set_stats
                /\ console' = [console EXCEPT !.summary = shown.summary]
    /\ pc' = "menu"
    /\ UNCHANGED <<stats_file, session, cards_studied, response, choice>>
    /\ AppFrame

\* the statistics view, which creates the entry of a set that has none, and
\* the exit
AppMenuCommand ==
    /\ pc = "menu"
    /\ \E token \in RunTokens \ {"1", "2"} :
           /\ choice' = token
           /\ IF token = "3"
              THEN /\ app_state' = FlashcardApp_get_current_set_stats(
                                       app_state, flashcard_set.name)
                   /\ pc' = "menu"
              ELSE /\ pc' = "exited"
                   /\ UNCHANGED app_state
    /\ UNCHANGED <<stats_file, session, cards_studied, response, console>>
    /\ AppFrame

NextApp ==
    \/ AppConstruct
    \/ AppStudyNoCards
    \/ AppStartStudy
    \/ AppHandleResponse
    \/ AppNextCard
    \/ AppLeaveStudy
    \/ AppMenuCommand

SpecApp == InitApp /\ [][NextApp]_vars

\* the statistics self.set_stats holds for the current set
AppSetStats(set_stats) == DictGet(set_stats, flashcard_set.name, EmptySetStats)

\* C28: in FlashcardApp.study_flashcards a skip response is recorded as an
\* attempt: total_attempts and the total of the card shown grow by 1,
\* correct_answers and the card's correct stay, and the statistics are
\* written to the file before the loop is left for the summary.
SkipIsAnAttempt ==
    [][/\ (pc = "card" /\ response' = "s") =>
              LET old == AppSetStats(app_state)
                  new == AppSetStats(app_state')
                  question == session.cards[session.current_index + 1].question
                  key == SubSeq(question, 1,
                                IF Len(question) < 50 THEN Len(question)
                                ELSE 50)
              IN  /\ new.total_attempts = old.total_attempts + 1
                  /\ new.correct_answers = old.correct_answers
                  /\ EntryOf(new, key).total = EntryOf(old, key).total + 1
                  /\ EntryOf(new, key).correct = EntryOf(old, key).correct
                  /\ \A k \in DictKeys(new.card_stats) \ {key} :
                         EntryOf(new, k) = EntryOf(old, k)
                  /\ pc' = "handled"
                  /\ console'.summary = None
                  /\ \/ FlashcardApp_load_statistics(stats_file')
                            = Return(app_state')
                     \/ /\ console'.warned
                        /\ stats_file' \in {stats_file, [t |-> "not_json"]}
       /\ (pc = "handled" /\ response = "s") =>
              /\ pc' = "menu"
              /\ app_state' = app_state
              /\ stats_file' = stats_file
              /\ console'.summary # None
              /\ console'.summary.cards_studied = session.current_index + 1]_vars

\* the second card of a session was skipped, the attempt is in the file and
\* the summary is shown
SkipIsAnAttemptWitness ==
    /\ pc = "menu"
    /\ response = "s"
    /\ session.current_index = 1
    /\ AppSetStats(app_state).total_attempts = 2
    /\ AppSetStats(app_state).correct_answers = 1
    /\ Len(AppSetStats(app_state).card_stats) = 2
    /\ FlashcardApp_load_statistics(stats_file) = Return(app_state)
    /\ console.summary # None
    /\ console.summary.cards_studied = 2

(***************************************************************************)
(* The scrollable menu (src/src/ui/interface.py).  A menu option is the    *)
(* pair <<label, value>> of two strings; a display is the record of the    *)
(* parts of the text, in the order they are appended.                      *)
(***************************************************************************)
MaxItems == 4

\* the decimal digits of a number below ten, as a string
Digit(n) == <<CASE n = 0 -> "0" [] n = 1 -> "1" [] n = 2 -> "2" [] n = 3 -> "3" [] n = 4 -> "4" [] n = 5 -> "5" [] n = 6 -> "6" [] n = 7 -> "7" [] n = 8 -> "8" [] OTHER -> "9">>

\* l[a:b] for 0 <= a, 0 <= b
Slice(l, a, b) == SubSeq(l, a + 1, Min(b, Len(l)))

\* the options ("o1", "1"), ("o2", "2"), ...
NumberedOptions(n) == [i \in 1..n |-> <<<<"o">> \o Digit(i), Digit(i)>>]

\* the status line with the range up to the end of the window
StatusLine_window(visible_options, scroll_offset, total_items, max_visible, search_query, search_mode) ==
    IF search_query # <<>> /\ ~search_mode
    THEN [t |-> "found",
          count |-> IF scroll_offset = 0
                       /\ scroll_offset + Len(visible_options) >= total_items
                    THEN Len(visible_options) ELSE total_items]
    ELSE IF total_items > max_visible
    THEN [t |-> "showing", a |-> scroll_offset + 1,
          b |-> scroll_offset + max_visible, n |-> total_items]
    ELSE [t |-> "none"]

\* "Add status info": Found .. matches, Showing a-b of n items, or nothing
StatusLine(visible_options, scroll_offset, total_items, max_visible, search_query, search_mode) ==
    IF search_query # <<>> /\ ~search_mode
    THEN [t |-> "found",
          count |-> IF scroll_offset = 0
                       /\ scroll_offset + Len(visible_options) >= total_items
                    THEN Len(visible_options) ELSE total_items]
    ELSE IF total_items > max_visible
    THEN [t |-> "showing", a |-> scroll_offset + 1,
          b |-> scroll_offset + Len(visible_options), n |-> total_items]
    ELSE [t |-> "none"]

create_scrollable_menu_display(title, visible_options, selected_index, scroll_offset, total_items, max_visible, search_query, search_mode) ==
    [title |-> title,
     search_bar |-> IF search_mode \/ search_query # <<>>
                    THEN [shown |-> TRUE, query |-> search_query,
                          cursor |-> search_mode]
                    ELSE [shown |-> FALSE],
     above |-> scroll_offset > 0,
     rows |-> [i \in 1..Len(visible_options) |->
                  [label |-> visible_options[i][1],
                   marked |-> i - 1 = selected_index]],
     below |-> scroll_offset + Len(visible_options) < total_items,
     status |-> StatusLine(visible_options, scroll_offset, total_items,
                           max_visible, search_query, search_mode),
     hint |-> ~search_mode /\ search_query = <<>>]

(***************************************************************************)
(* Specification of the display: the arguments are drawn, one step builds  *)
(* the display.                                                            *)
(***************************************************************************)
InitDisplay ==
    /\ call \in
           {[fn |-> "_create_scrollable_menu_display", done |-> FALSE,
             visible_options |-> Slice(NumberedOptions(MaxItems), from, to),
             selected_index |-> sel, scroll_offset |-> off,
             total_items |-> total, max_visible |-> max,
             search_query |-> q, search_mode |-> mode] :
                from \in 0..MaxItems, to \in 0..MaxItems,
                sel \in 0..(MaxItems - 1), off \in 0..MaxItems,
                total \in 0..(MaxItems + 2), max \in 1..MaxItems,
                q \in {<<>>, <<"o">>}, mode \in BOOLEAN}
    /\ ret = NoRet
    /\ AppIdle

CallCreateScrollableMenuDisplay ==
    /\ call.fn = "_create_scrollable_menu_display"
    /\ ~call.done
    /\ ret' = Return(create_scrollable_menu_display(
                         "Test Menu", call.visible_options,
                         call.selected_index, call.scroll_offset,
                         call.total_items, call.max_visible,
                         call.search_query, call.search_mode))
    /\ call' = [call EXCEPT !.done = TRUE]
    /\ UNCHANGED appVars

NextDisplay == CallCreateScrollableMenuDisplay

SpecDisplay == InitDisplay /\ [][NextDisplay]_vars

\* what C38 says of the two indicators and of the numbers of the status
\* line
IndicatorsAndRange ==
    /\ ret.value.above <=> call.scroll_offset > 0
    /\ ret.value.below <=>
           call.scroll_offset + Len(call.visible_options) < call.total_items
    /\ ret.value.status.t = "showing" =>
           /\ ret.value.status.a = call.scroll_offset + 1
           /\ ret.value.status.b
                  = call.scroll_offset + Len(call.visible_options)
           /\ ret.value.status.n = call.total_items

\* C38 as claimed: "more items above" exactly when scroll_offset > 0, "more
\* items below" exactly when scroll_offset + number of visible options <
\* total_items, and "Showing a-b of N" exactly when total_items >
\* max_visible and no search query is displayed, a = scroll_offset + 1,
\* b = scroll_offset + number of visible options.
DisplayAsClaimed ==
    (call.fn = "_create_scrollable_menu_display" /\ call.done) =>
        /\ IndicatorsAndRange
        /\ ret.value.status.t = "showing" <=>
               /\ call.total_items > call.max_visible
               /\ ~(/\ ret.value.search_bar.shown
                    /\ ret.value.search_bar.query # <<>>)

\* C38, amended: the indicators and the numbers as claimed, and "Showing
\* a-b of N" exactly when total_items > max_visible and the "Found ..
\* matches" line is not shown, that is unless there is a search query and
\* the search mode is off.
DisplayContract ==
    (call.fn = "_create_scrollable_menu_display" /\ call.done) =>
        /\ IndicatorsAndRange
        /\ ret.value.status.t = "showing" <=>
               /\ call.total_items > call.max_visible
               /\ ~(call.search_query # <<>> /\ ~call.search_mode)
        /\ ret.value.status.t = "found" <=>
               (call.search_query # <<>> /\ ~call.search_mode)

\* a query is being typed over the middle of a long list: the search bar
\* shows it, both indicators and the status line "Showing 2-3 of 5" are on
DisplayWitness ==
    /\ call.fn = "_create_scrollable_menu_display"
    /\ call.done
    /\ call.search_mode
    /\ call.search_query # <<>>
    /\ ret.value.search_bar.shown
    /\ ret.value.above
    /\ ret.value.below
    /\ ret.value.status = [t |-> "showing", a |-> 2, b |-> 3, n |-> 5]
    /\ Len(ret.value.rows) = 2
    /\ call.max_visible = 3

(***************************************************************************)
(* The search of the flashcard browser (src/src/ui/interface.py)           *)
(***************************************************************************)
MaxBrowse == 2

PreviewLen == 55

\* str.lower(), for the alphabet used here
Lower(s) ==
    [i \in 1..Len(s) |->
        CASE s[i] = "A" -> "a" [] s[i] = "B" -> "b" [] s[i] = "C" -> "c"
          [] OTHER -> s[i]]

\* q in t, for two strings
Occurs(q, t) ==
    \E i \in 0..(Len(t) - Len(q)) : SubSeq(t, i + 1, i + Len(q)) = q

\* value.isdigit()
IsDigits(value) ==
    /\ value # <<>>
    /\ \A i \in 1..Len(value) : \E n \in 0..9 : <<value[i]>> = Digit(n)

\* int(value), for a string of digits
RECURSIVE IntOf(_)
IntOf(value) ==
    IF value = <<>> THEN 0
    ELSE 10 * IntOf(SubSeq(value, 1, Len(value) - 1))
         + (CHOOSE n \in 0..9 : <<value[Len(value)]>> = Digit(n))

\* str(n), for n >= 0
RECURSIVE StrOf(_)
StrOf(n) == IF n < 10 THEN Digit(n) ELSE StrOf(n \div 10) \o Digit(n % 10)

\* " ".join(s.split()): the words of s with one space between them.  A
\* character is kept when it is no space, or when it is the first space
\* behind a word that another word follows.
JoinWords(s) ==
    LET marked == [i \in 1..Len(s) |->
                      [c |-> s[i],
                       kept |-> \/ s[i] # " "
                                \/ /\ i > 1
                                   /\ s[i - 1] # " "
                                   /\ \E j \in (i + 1)..Len(s) : s[j] # " "]]
        words == SelectSeq(marked, LAMBDA m : m.kept)
    IN  [k \in 1..Len(words) |-> words[k].c]

BrowseCard(q, a, c) == [question |-> q, answer |-> a, code_example |-> c]

BackOption == <<<<"B", "a", "c", "k">>, <<"b", "a", "c", "k">>>>

\* the option of the card at index i (from 0): (f"{i+1:2d}. {preview}", str(i))
CardOption(i, card) ==
    LET preview == IF Len(card.question) > PreviewLen
                   THEN SubSeq(card.question, 1, PreviewLen)
                            \o <<".", ".", ".">>
                   ELSE card.question
        number == IF i + 1 < 10 THEN <<" ">> \o StrOf(i + 1)
                  ELSE StrOf(i + 1)
    IN  <<number \o <<".", " ">> \o JoinWords(preview), StrOf(i)>>

\* the options display_flashcard_browser builds for the cards of a set
BrowseOptions(cards) ==
    <<BackOption>> \o [i \in 1..Len(cards) |-> CardOption(i - 1, cards[i])]

\* f"{card.question} {card.answer}", and " " and the code example if any
SearchableText(card) ==
    card.question \o <<" ">> \o card.answer
        \o (IF card.code_example # None /\ card.code_example # <<>>
            THEN <<" ">> \o card.code_example ELSE <<>>)

\* the body of the loop: the option is appended or not
KeepsOption(option, flashcards, query_lower) ==
    LET label == option[1]
        value == option[2]
    IN  IF value = <<"b", "a", "c", "k">> THEN TRUE
        ELSE IF IsDigits(value)
        THEN /\ 0 <= IntOf(value)
             /\ IntOf(value) < Len(flashcards)
             /\ Occurs(query_lower,
                       Lower(SearchableText(flashcards[IntOf(value) + 1])))
        ELSE Occurs(query_lower, Lower(label))

filter_flashcard_options(options, flashcards, query) ==
    IF query = <<>> THEN options
    ELSE SelectSeq(options,
                   LAMBDA o : KeepsOption(o, flashcards, Lower(query)))

(***************************************************************************)
(* Specification of the search: the cards and the query are drawn, one     *)
(* step filters the options of the browser.                                *)
(***************************************************************************)
\* the cards drawn; one has a long question, cut in the label
BrowseCards ==
    {BrowseCard(q, a, c) :
        q \in {<<"a">>, <<"A", "b">>,
               [i \in 1..(PreviewLen + 1) |->
                   IF i % 7 = 0 THEN " " ELSE "a"]},
        a \in {<<"b">>, <<"c", " ", "C">>},
        c \in {None, <<"a", "c">>}}

InitFilter ==
    /\ call \in
           {[fn |-> "_filter_flashcard_options", done |-> FALSE,
             options |-> BrowseOptions(cards), flashcards |-> cards,
             query |-> q] :
                cards \in SeqsUpTo(BrowseCards, MaxBrowse) \ {<<>>},
                q \in {<<>>, <<"a">>, <<"B">>, <<" ">>, <<"b", " ", "c">>,
                       <<"c", "c">>, <<"a", "b">>}}
    /\ ret = NoRet
    /\ AppIdle

CallFilterFlashcardOptions ==
    /\ call.fn = "_filter_flashcard_options"
    /\ ~call.done
    /\ ret' = Return(filter_flashcard_options(call.options, call.flashcards,
                                              call.query))
    /\ call' = [call EXCEPT !.done = TRUE]
    /\ UNCHANGED appVars

NextFilter == CallFilterFlashcardOptions

SpecFilter == InitFilter /\ [][NextFilter]_vars

\* the query occurs, whatever the case, in the question, the answer or the
\* code example of the card
OccursInField(query, card) ==
    \/ Occurs(Lower(query), Lower(card.question))
    \/ Occurs(Lower(query), Lower(card.answer))
    \/ /\ card.code_example # None
       /\ Occurs(Lower(query), Lower(card.code_example))

\* C39: the result of _filter_flashcard_options is a subsequence of the
\* options in their order, holds the "back" option, holds the option of a
\* card exactly when the query occurs, whatever the case, in the card's
\* question, answer or code example, and is the input when the query is
\* empty.
FilterAsClaimed ==
    (call.fn = "_filter_flashcard_options" /\ call.done) =>
        LET r == ret.value
            kept == {i \in 1..Len(call.options) :
                        \E j \in 1..Len(r) : r[j] = call.options[i]}
        IN  /\ r = SelectSeq(call.options,
                             LAMBDA o : \E j \in 1..Len(r) : r[j] = o)
            /\ 1 \in kept
            /\ \A i \in 1..Len(call.flashcards) :
                   (i + 1) \in kept <=>
                       OccursInField(call.query, call.flashcards[i])
            /\ call.query = <<>> => r = call.options

(***************************************************************************)
(* The menus with scrolling and search (src/src/ui/interface.py):          *)
(* _show_scrollable_arrow_key_menu and _show_flashcard_searchable_menu.    *)
(* call holds the arguments and the locals of the function, and the parts  *)
(* of the frame on the screen; one step is one key: its handling and the   *)
(* next frame, or the return.                                              *)
(***************************************************************************)
MaxQuery == 2

MinVisible == 5

ReservedLines == 10

\* _filter_options: the options whose label holds the query
filter_options(options, query) ==
    IF query = <<>> THEN options
    ELSE SelectSeq(options, LAMBDA o : Occurs(Lower(query), Lower(o[1])))

\* "Apply search filter", in either menu
MenuFilter(m, query) ==
    IF m.fn = "_show_flashcard_searchable_menu"
    THEN filter_flashcard_options(m.options, m.flashcards, query)
    ELSE filter_options(m.options, query)

\* "Reset selection if out of bounds after filtering"
ResetSelection(m, filtered) ==
    IF (m.selected_index >= Len(filtered) /\ Len(filtered) > 0)
       \/ Len(filtered) = 0
    THEN [m EXCEPT !.selected_index = 0, !.scroll_offset = 0]
    ELSE m

\* a window that follows the selection one row late
AdjustViewport_late(m, filtered) ==
    IF Len(filtered) <= m.max_visible_items THEN 0
    ELSE IF m.selected_index < m.scroll_offset THEN m.selected_index
    ELSE IF m.selected_index >= m.scroll_offset + m.max_visible_items
    THEN m.selected_index - m.max_visible_items
    ELSE m.scroll_offset

\* "Calculate viewport window": the scroll_offset of the frame
AdjustViewport(m, filtered) ==
    IF Len(filtered) <= m.max_visible_items THEN 0
    ELSE IF m.selected_index < m.scroll_offset THEN m.selected_index
    ELSE IF m.selected_index >= m.scroll_offset + m.max_visible_items
    THEN m.selected_index - m.max_visible_items + 1
    ELSE m.scroll_offset

\* the loop from its top to live.refresh(): the locals and the frame
RenderFrame(m) ==
    LET filtered == MenuFilter(m, m.search_query)
        r == ResetSelection(m, filtered)
        fits == Len(filtered) <= m.max_visible_items
        off == AdjustViewport(r, filtered)
        visible == IF fits THEN filtered
                   ELSE Slice(filtered, off, off + m.max_visible_items)
        visible_selected == IF fits
                            THEN IF Len(filtered) > 0
                                 THEN r.selected_index ELSE 0
                            ELSE r.selected_index - off
    IN  [r EXCEPT
            !.filtered_options = filtered,
            !.scroll_offset = off,
            !.visible_options = visible,
            !.visible_selected = visible_selected,
            !.display = create_scrollable_menu_display(
                            "Browse", visible, visible_selected, off,
                            Len(filtered), m.max_visible_items,
                            m.search_query, m.search_mode)]

\* the string a key name is compared to the values with
KeyText(key) ==
    CASE key = "quit" -> <<"q", "u", "i", "t">>
      [] key = "up" -> <<"u", "p">>
      [] key = "down" -> <<"d", "o", "w", "n">>
      [] key = "enter" -> <<"e", "n", "t", "e", "r">>
      [] key = "escape" -> <<"e", "s", "c", "a", "p", "e">>
      [] key = "search" -> <<"s", "e", "a", "r", "c", "h">>
      [] key = "backspace" ->
             <<"b", "a", "c", "k", "s", "p", "a", "c", "e">>
      [] OTHER -> <<key>>

\* the first value of the options that is one of wanted, or default
FirstValueIn(options, wanted, default) ==
    LET hits == SelectSeq(options, LAMBDA o : o[2] \in wanted)
    IN  IF hits = <<>> THEN default ELSE hits[1][2]

\* "Handle input": the locals after the key, or the value returned
HandleKey(m, key) ==
    LET n == Len(m.filtered_options)
    IN  IF m.search_mode
        THEN IF key \in {"enter", "escape"}
             THEN [returns |-> FALSE, m |-> [m EXCEPT !.search_mode = FALSE]]
             ELSE IF key = "backspace"
             THEN [returns |-> FALSE, m |-> [m EXCEPT !.search_query =
                           SubSeq(@, 1, IF Len(@) > 0 THEN Len(@) - 1 ELSE 0)]]
             ELSE IF Len(KeyText(key)) = 1 /\ key # "/"
             THEN [returns |-> FALSE, m |-> [m EXCEPT !.search_query = @ \o <<key>>]]
             ELSE [returns |-> FALSE, m |-> m]
        ELSE IF key = "search" THEN [returns |-> FALSE, m |-> [m EXCEPT !.search_mode = TRUE]]
        ELSE IF key = "escape" /\ m.search_query # <<>>
        THEN [returns |-> FALSE, m |-> [m EXCEPT !.search_query = <<>>, !.search_mode = FALSE,
                            !.selected_index = 0, !.scroll_offset = 0]]
        ELSE IF key = "up" /\ n > 0
        THEN [returns |-> FALSE, m |-> [m EXCEPT !.selected_index = (@ - 1) % n]]
        ELSE IF key = "down" /\ n > 0
        THEN [returns |-> FALSE, m |-> [m EXCEPT !.selected_index = (@ + 1) % n]]
        ELSE IF key = "enter" /\ n > 0
        THEN IF m.selected_index < n
             THEN [returns |-> TRUE, m |-> m, ret |-> Return(m.filtered_options[m.selected_index + 1][2])]
             ELSE [returns |-> TRUE, m |-> m, ret |-> Raise("IndexError")]
        ELSE IF m.allow_direct_keys
        THEN IF \E i \in 1..n : m.filtered_options[i][2] = KeyText(key)
             THEN [returns |-> TRUE, m |-> m, ret |-> Return(KeyText(key))]
             ELSE [returns |-> FALSE, m |-> m]
        ELSE IF key = "quit"
        THEN [returns |-> TRUE, m |-> m, ret |-> Return(FirstValueIn(
                                 m.options,
                                 {<<"q">>, <<"q", "u", "i", "t">>},
                                 <<"q", "u", "i", "t">>))]
        ELSE [returns |-> FALSE, m |-> m]

(***************************************************************************)
(* Specification of a menu: the menu, the height of the terminal and the   *)
(* default index are drawn; the first frame is on the screen.              *)
(***************************************************************************)
\* the cards of the set that is browsed
BrowseDeck ==
    <<BrowseCard(<<"a">>, <<"c">>, None),
      BrowseCard(<<"a", "b">>, <<"c">>, None),
      BrowseCard(<<"a">>, <<"c">>, <<"b", "b">>),
      BrowseCard(<<"b">>, <<"c">>, None),
      BrowseCard(<<"A", "b">>, <<"c">>, None),
      BrowseCard(<<"a">>, <<"a">>, None)>>

InitScroll ==
    /\ call \in
           {RenderFrame(
                [fn |-> fn, returned |-> FALSE, key |-> "none",
                 options |-> BrowseOptions(BrowseDeck),
                 flashcards |-> BrowseDeck,
                 allow_direct_keys |-> direct,
                 max_visible_items |->
                     IF height - ReservedLines > MinVisible
                     THEN height - ReservedLines ELSE MinVisible,
                 selected_index |-> default_index,
                 scroll_offset |-> 0,
                 search_query |-> <<>>,
                 search_mode |-> FALSE,
                 filtered_options |-> BrowseOptions(BrowseDeck),
                 visible_options |-> <<>>,
                 visible_selected |-> 0,
                 display |-> None]) :
                fn \in {"_show_scrollable_arrow_key_menu",
                        "_show_flashcard_searchable_menu"},
                direct \in BOOLEAN,
                height \in {ReservedLines + 2, ReservedLines + MinVisible + 1},
                default_index \in {0, 3, 9}}
    /\ ret = NoRet
    /\ AppIdle

\* one key is read and handled; the next frame is drawn unless the
\* function returns
MenuKey ==
    \E key \in {"up", "down", "enter", "escape", "search", "backspace",
                "quit", "a", "b", " ", "0"} :
        /\ call.fn \in {"_show_scrollable_arrow_key_menu",
                        "_show_flashcard_searchable_menu"}
        /\ ~call.returned
        /\ (call.search_mode /\ Len(KeyText(key)) = 1) =>
               Len(call.search_query) < MaxQuery
        /\ LET handled == HandleKey(call, key)
           IN  IF handled.returns
               THEN /\ call' = [call EXCEPT !.returned = TRUE, !.key = key]
                    /\ ret' = handled.ret
               ELSE /\ call' = RenderFrame([handled.m EXCEPT !.key = key])
                    /\ ret' = ret
        /\ UNCHANGED appVars

NextScroll == MenuKey

SpecScroll == InitScroll /\ [][NextScroll]_vars

\* the frame on the screen: the selection is an index of the filtered
\* options and lies in the window, and the row marked in the display is
\* the selected option
SelectionInWindow ==
    LET n == Len(call.filtered_options)
    IN  /\ n > 0 => (0 <= call.selected_index /\ call.selected_index < n)
        /\ call.scroll_offset <= call.selected_index
        /\ call.selected_index
               < call.scroll_offset + call.max_visible_items
        /\ n > 0 =>
               /\ 0 <= call.visible_selected
               /\ call.visible_selected < Len(call.visible_options)
               /\ call.visible_options[call.visible_selected + 1]
                      = call.filtered_options[call.selected_index + 1]
               /\ call.display.rows[call.visible_selected + 1].marked

\* C40: in the menus with scrolling and search, every frame drawn has
\* 0 <= selected_index < len(filtered options) when there are filtered
\* options and scroll_offset <= selected_index < scroll_offset +
\* max_visible_items, the marked row is the selected option, and an enter
\* that returns returns the value of the option marked in the frame.
SelectionAlwaysVisible ==
    /\ [](call.fn \in {"_show_scrollable_arrow_key_menu",
                       "_show_flashcard_searchable_menu"}
             => SelectionInWindow)
    /\ [][(~call.returned /\ call'.returned /\ call'.key = "enter") =>
             /\ ret'.exc = "none"
             /\ ret'.value
                    = call.filtered_options[call.selected_index + 1][2]
             /\ ret'.value = call.visible_options[call.visible_selected + 1][2]]_vars

\* a search is shown over a scrolled list: six of the seven options match,
\* five fit in the window, the last one is selected and marked
SelectionAlwaysVisibleWitness ==
    /\ call.fn = "_show_flashcard_searchable_menu"
    /\ ~call.returned
    /\ call.search_query = <<"a">>
    /\ ~call.search_mode
    /\ Len(call.filtered_options) = 6
    /\ call.max_visible_items = 5
    /\ call.selected_index = 5
    /\ call.scroll_offset = 1
    /\ call.visible_selected = 4
    /\ call.display.above
    /\ ~call.display.below
    /\ call.display.status.t = "found"

====
